---- MODULE Spec2Model ----
(***************************************************************************)
(* Session controller, pause accounting and session persistence of the     *)
(* ESP32 rowing monitor (main/rowing_physics.c, main/session_manager.c,    *)
(* main/web_server.c, main/hr_receiver.c, main/stroke_detector.c).         *)
(*                                                                         *)
(* Time is esp_timer_get_time() in microseconds.  Every handler runs at    *)
(* one instant `now`; the Tick actions let time pass between handlers.     *)
(* All C integer divisions are on non-negative operands here, so \div      *)
(* agrees with C's truncating division.  Every uint32_t quantity stays far *)
(* below 2^32 within the time bounds (49 days of uptime would be needed),   *)
(* so the (uint32_t) casts are not modelled.                               *)
(***************************************************************************)
EXTENDS Integers, Sequences, FiniteSets, TLC

\* ------------------------------------------------------------------------
\* Program constants
\* ------------------------------------------------------------------------
MAX_STORED_SESSIONS == 20
SAMPLE_BUFFER_SIZE == 7200
MAX_HR_SAMPLES == 7200
\* ble_ftms_server.c, bits of the Rower Data flags word
ROWER_TOTAL_DISTANCE_FLAG == 4
ROWER_INST_PACE_FLAG == 8
ROWER_AVG_PACE_FLAG == 16
ROWER_INST_POWER_FLAG == 32
ROWER_AVG_POWER_FLAG == 64
ROWER_EXPENDED_ENERGY_FLAG == 256
ROWER_ELAPSED_TIME_FLAG == 2048
\* app_config.h, sensor debounce and idle timeout
FLYWHEEL_DEBOUNCE_US == 10000
SEAT_DEBOUNCE_US == 50000
IDLE_TIMEOUT_MS == 5000
\* rowing_physics_calibrate_drag: samples that complete the calibration
CALIBRATION_SAMPLES == 50
MINIMUM_STROKE_DURATION_MS == 500
MIN_SAVE_STROKES == 5
MIN_SAVE_DISTANCE_M == 10

\* ------------------------------------------------------------------------
\* Bounds of the model
\* ------------------------------------------------------------------------
\* esp_timer value when the tasks and the HTTP server start running
BootTimeUs == 2500
\* the two amounts by which time advances between steps (microseconds)
FineStepUs == 600
CoarseStepUs == 600400
\* how many fine / coarse steps a behaviour of Spec may take
MaxFineTicks == 1
MaxCoarseTicks == 2
\* how many coarse steps a behaviour of SpecAuto / SpecStore may take
MaxAutoTicks == 3
MaxStoreTicks == 5
\* a clock step longer than the idle timeout, and how many a behaviour of
\* the sensor pipeline takes of it and of the coarse step
LongStepUs == 5000400
MaxLongTicks == 1
MaxSensorTicks == 2
\* caps on counters that the code leaves unbounded
MaxPulses == 3
MaxSensorStrokes == 1
\* how many long steps a behaviour of SpecStroke may take
MaxStrokeTicks == 2
MaxCalibrationSamples == 51
MaxDistanceStrokes == 2
MaxStrokes == 1
MaxStoreStrokes == 5
MaxSamples == 1
MaxHrSamples == 1
\* largest session id a behaviour may assign
MaxSessionId == 22
MaxBroadcastTicks == 10
\* socket descriptors the HTTP server hands out
MaxFds == 2
MaxWorkJoules == 10
DEFAULT_MOMENT_OF_INERTIA == 101
DEFAULT_DRAG_COEFFICIENT == 100
\* TWO_PI in millionths
TWO_PI == 6283185
DEFAULT_MAGNETS_PER_REV == 4
\* in rad/s
RECOVERY_VELOCITY_THRESHOLD == 8
\* the clock of SpecPulse: the step between two pulses is one or two
\* PulseStepUs, and a behaviour takes up to MaxPulseTicks of them
PulseStepUs == 12500
MaxPulseTicks == 5
BLE_NOTIFY_INTERVAL_MS == 500
MAX_STREAMING_CLIENTS == 8
WS_BROADCAST_INTERVAL_MS == 200
\* wall-clock milliseconds at boot once SNTP has synced (the real epoch value
\* is beyond the integers of the model checker; what matters is that it is
\* positive and is not the uptime)
WallEpochMs == 1000000

\* session counts found in NVS at boot (left there by earlier runs)
InitCounts == {20}
\* distance added by one counted stroke: 0 (drive work <= 0.1 J) or a value
\* of the clamp range [2, 20] m
StrokeDistances == {0, 2}
\* the fields of rowing_metrics_t that only the notification reads, as the
\* integers its casts produce
DerivedMetrics ==
    { [stroke_rate_x2 |-> 0, instantaneous_pace |-> 0, average_pace |-> 0,
       instantaneous_power |-> 0, average_power |-> 0,
       total_calories |-> 0, calories_per_hour |-> 0],
      [stroke_rate_x2 |-> 48, instantaneous_pace |-> 130,
       average_pace |-> 10000, instantaneous_power |-> -1,
       average_power |-> 300, total_calories |-> 70000,
       calories_per_hour |-> 900] }
\* drive_phase_work_joules at the end of a drive, in tenths of a joule
DriveWorks == {0, 1, 50, 2800, 300000}
\* the drive work of the strokes of SpecStroke
StrokeWorks == {2800}
\* heart-rate values posted to the HR port (0 is rejected)
HrInputs == {0, 60}
\* heart-rate values handed to the sampler
SampleHeartRates == {60}
SampleStrokeRates == {24}
ClientKinds == {"ble", "ws", "sse"}
\* moments of inertia found in the configuration, in g m^2
ConfiguredInertias == {101, 150}
\* clamped power of a pulse, in watts
PulsePowers == {200}
\* numbers posted to /hr
PostedRates == {0, 29, 60, 221}
\* Heart Rate Measurements notified by the monitor: 8-bit 29 and 60, 16-bit
\* 60 and 300, and two that are too short
HrMeasurements ==
    { <<0, 29>>, <<0, 60>>, <<1, 60, 0>>, <<1, 44, 1>>, <<0>>, <<1, 60>> }
\* session ids used as arguments of DELETE /api/sessions/{id}
DeleteIds == {0, 1, 21, 23}
\* config.auto_pause_seconds values (0 disables auto-pause)
AutoPauseChoices == {0, 1}

VARIABLES
    now,                      \* esp_timer_get_time()
    metrics,                  \* g_metrics (rowing_metrics_t)
    s_current_session_id,
    s_session_count,
    s_stroke_count_at_resume,
    s_sample_buffer,          \* rows 1..s_sample_count of the sample buffer
    s_last_distance,
    s_sample_totals,          \* s_heart_rate_sum/_count, s_max_heart_rate,
                              \* s_stroke_rate_sum/_samples
    s_session_start_time,     \* esp_timer value at session start
    s_session_start_unix_ms,  \* wall-clock ms at session start, 0 if unsynced
    nvs_rec,                  \* NVS keys s0..s19 of namespace "sessions"
    nvs_dat,                  \* NVS keys d0..d19
    nvs_count,                \* NVS key "count"
    s_recording,              \* hr_receiver.c
    s_hr_buffer,              \* entries 0..s_buffer_index-1 of the HR trace
    s_current_hr,             \* hr_receiver.c
    s_last_update_time_ms,    \* hr_receiver.c
    auto_pause_seconds,       \* g_config.auto_pause_seconds
    calibration_state,        \* g_inertia_calibration.state
    s_time_synced,            \* wifi_manager.c: SNTP has set the wall clock
    g_flywheel_pulse_count,   \* sensor_manager.c: edges accepted by the ISR
    g_last_flywheel_time_us,  \* time of the last accepted flywheel edge
    g_last_seat_time_us,      \* time of the last accepted seat edge
    sensor_event_group,       \* the event bits set and not yet consumed
    packet,                   \* ble_ftms_server.c: the last packet notified
    ble_partial,              \* bytes of the packet being built
    ble_counter,              \* main.c, broadcast_task
    ws_counter,               \* main.c, broadcast_task
    broadcast_ticks,          \* history: rounds of broadcast_task so far
    served,                   \* history: the streams served in the last round
    g_config,                 \* g_config.wifi_enabled and .ble_enabled
    clients,                  \* BLE central, WebSocket and SSE client
    http_local,               \* now and paused_duration_us / 1000 of the
                              \* resume handler that is being served
    auto_local,               \* the same of the auto-resume under way
    sockets,                  \* fd -> "free", "open" (peer connected) or
                              \* "closing" (peer gone, session not yet
                              \* deleted by the server)
    g_ws_fds,                 \* web_server.c, -1 marks a free entry
    g_sse_clients,            \* web_server.c, the fd of each entry
    reap_local,               \* web_server_broadcast_metrics under way:
                              \* its position, fds_to_send and dead_fds
    op,                       \* the last command handled and its response
    committed,                \* history: id -> record written by end_session
    deleted                   \* history: ids removed by delete_session

vars == <<now, metrics, s_current_session_id,
          s_session_count, s_stroke_count_at_resume, s_sample_buffer,
          s_last_distance, s_sample_totals, s_session_start_time,
          s_session_start_unix_ms, nvs_rec, nvs_dat, nvs_count, s_recording,
          s_hr_buffer, s_current_hr, s_last_update_time_ms,
          auto_pause_seconds, calibration_state, s_time_synced,
          g_flywheel_pulse_count, g_last_flywheel_time_us,
          g_last_seat_time_us, sensor_event_group, packet, ble_partial,
          ble_counter, ws_counter, broadcast_ticks, served, g_config,
          clients, http_local, auto_local, sockets, g_ws_fds,
          g_sse_clients, reap_local, op,
          committed, deleted>>

startVars == <<s_session_start_time, s_session_start_unix_ms>>
smVars == <<s_current_session_id, s_session_count,
            s_stroke_count_at_resume, s_sample_buffer, s_last_distance,
            s_sample_totals, startVars>>
nvsVars == <<nvs_rec, nvs_dat, nvs_count, committed, deleted>>
hrNowVars == <<s_current_hr, s_last_update_time_ms>>
hrVars == <<s_recording, s_hr_buffer, hrNowVars>>
cfgVars == <<auto_pause_seconds, calibration_state, s_time_synced>>
castVars == <<ble_counter, ws_counter, broadcast_ticks, served, g_config,
              clients>>
fdVars == <<sockets, g_ws_fds, g_sse_clients, reap_local>>
stepVars == <<http_local, auto_local, fdVars>>
bleVars == <<packet, ble_partial, castVars, stepVars>>
isrVars == <<g_flywheel_pulse_count, g_last_flywheel_time_us,
             g_last_seat_time_us, sensor_event_group>>

\* ------------------------------------------------------------------------
\* Helpers
\* ------------------------------------------------------------------------
Slots == 0 .. (MAX_STORED_SESSIONS - 1)

SlotOf(id) == id % MAX_STORED_SESSIONS

\* an absent NVS key
NoRecord == [present |-> FALSE, session_id |-> 0, start_timestamp |-> 0,
             duration_seconds |-> 0,
             total_distance_meters |-> 0, stroke_count |-> 0,
             sample_count |-> 0, synced |-> 0]
NoBlob == [present |-> FALSE, rows |-> <<>>]

\* rowing_metrics_t after memset(0)
ZeroMetrics ==
    [session_start_time_us |-> 0, elapsed_time_ms |-> 0,
     current_phase |-> "IDLE", stroke_count |-> 0,
     last_stroke_start_time_us |-> 0,
     total_distance_meters |-> 0,
     calibration_complete |-> FALSE,
     drag_calibration_samples |-> 0,
     flywheel_pulse_count |-> 0, is_active |-> FALSE,
     is_paused |-> FALSE, pause_start_time_us |-> 0,
     last_resume_time_us |-> 0, total_paused_time_ms |-> 0,
     moment_of_inertia |-> 0,         \* in g m^2
     drag_coefficient |-> 0,          \* in millionths
     drag_factor |-> 0,               \* in millionths
     last_flywheel_time_us |-> 0,
     last_stroke_end_time_us |-> 0,
     drive_phase_duration_ms |-> 0,
     recovery_phase_duration_ms |-> 0,
     stroke_rate_spm |-> 0,               \* in tenths
     angular_velocity_rad_s |-> 0,        \* in thousandths
     prev_angular_velocity_rad_s |-> 0,   \* in thousandths
     angular_acceleration_rad_s2 |-> 0,
     instantaneous_power_watts |-> 0,
     total_work_joules |-> 0]

Op(name, id, ret, note) ==
    [name |-> name, id |-> id, ret |-> ret, note |-> note]

\* ------------------------------------------------------------------------
\* rowing_physics.c
\* ------------------------------------------------------------------------
\* rowing_physics_init with config->moment_of_inertia = moi and the default
\* initial drag coefficient
rowing_physics_init_with(moi) ==
    [ZeroMetrics EXCEPT !.moment_of_inertia = moi,
                        !.drag_coefficient = DEFAULT_DRAG_COEFFICIENT]

rowing_physics_init == rowing_physics_init_with(DEFAULT_MOMENT_OF_INERTIA)

rowing_physics_reset_keep_distance(m) ==
    [ZeroMetrics EXCEPT !.moment_of_inertia = m.moment_of_inertia,
                        !.drag_coefficient = m.drag_coefficient,
                        !.calibration_complete = m.calibration_complete,
                        !.total_distance_meters = m.total_distance_meters,
                        !.is_paused = TRUE]

rowing_physics_reset_calibration_too(m) ==
    [ZeroMetrics EXCEPT !.moment_of_inertia = m.moment_of_inertia,
                        !.drag_coefficient = m.drag_coefficient,
                        !.is_paused = TRUE]

rowing_physics_reset_default_drag(m) ==
    [ZeroMetrics EXCEPT !.moment_of_inertia = m.moment_of_inertia,
                        !.drag_coefficient = DEFAULT_DRAG_COEFFICIENT,
                        !.calibration_complete = m.calibration_complete,
                        !.is_paused = TRUE]

rowing_physics_reset(m) ==
    [ZeroMetrics EXCEPT !.moment_of_inertia = m.moment_of_inertia,
                        !.drag_coefficient = m.drag_coefficient,
                        !.calibration_complete = m.calibration_complete,
                        !.is_paused = TRUE]

\* rowing_physics_calculate_power: total_power is the clamped sum of the
\* acceleration and drag power; in the drive phase it adds the work of an
\* assumed 50 ms step
rowing_physics_calculate_power(m, total_power) ==
    LET m1 == [m EXCEPT !.instantaneous_power_watts = total_power]
    IN  IF m.current_phase = "DRIVE" /\ total_power > 0
        THEN [m1 EXCEPT !.total_work_joules = @ + (total_power * 5) \div 100]
        ELSE m1

rowing_physics_update_elapsed_time_nopause(m, t) ==
    IF m.session_start_time_us = 0
    THEN [m EXCEPT !.elapsed_time_ms = 0]
    ELSE LET raw_elapsed_ms == ((t - m.session_start_time_us) \div 1000)
         IN  [m EXCEPT !.elapsed_time_ms =
                  IF raw_elapsed_ms > m.total_paused_time_ms
                  THEN raw_elapsed_ms - m.total_paused_time_ms
                  ELSE 0]

rowing_physics_update_elapsed_time(m, t) ==
    IF m.is_paused
    THEN m
    ELSE IF m.session_start_time_us = 0
    THEN [m EXCEPT !.elapsed_time_ms = 0]
    ELSE LET raw_elapsed_ms == ((t - m.session_start_time_us) \div 1000)
         IN  [m EXCEPT !.elapsed_time_ms =
                  IF raw_elapsed_ms > m.total_paused_time_ms
                  THEN raw_elapsed_ms - m.total_paused_time_ms
                  ELSE 0]

\* ------------------------------------------------------------------------
\* stroke_detector.c
\* ------------------------------------------------------------------------
\* What one flywheel pulse tells the detector: the truth of the four
\* threshold tests it makes on (omega, alpha).
\*   drive : omega > g_drive_start_velocity /\ alpha > g_drive_accel_threshold
\*   accel : alpha > g_drive_accel_threshold
\*   peak  : alpha < 0 /\ omega < 0.9 * peak_velocity_in_stroke
\*   slow  : omega < g_recovery_velocity
Kinematics ==
    { [drive |-> TRUE,  accel |-> TRUE,  peak |-> FALSE, slow |-> FALSE],
      [drive |-> FALSE, accel |-> FALSE, peak |-> TRUE,  slow |-> FALSE],
      [drive |-> FALSE, accel |-> FALSE, peak |-> TRUE,  slow |-> TRUE],
      [drive |-> FALSE, accel |-> FALSE, peak |-> FALSE, slow |-> FALSE] }

\* the largest r with r^3 <= x
ICbrt(x) == CHOOSE r \in 0..100 : r * r * r <= x /\ x < (r + 1) * (r + 1) * (r + 1)

\* distance_this_stroke of rowing_physics_calculate_distance in whole metres
\* (rounded down), from the drive work in tenths of a joule:
\* 0 unless work > 0.1 J, else cbrt(work / 2.80) clamped to [2, 20]
distance_this_stroke(work_dj) ==
    IF work_dj > 1
    THEN LET d == ICbrt(work_dj \div 28)
         IN  IF d < 2 THEN 2 ELSE IF d > 20 THEN 20 ELSE d
    ELSE 0

\* rowing_physics_reset_calibration
rowing_physics_reset_calibration(m) ==
    [m EXCEPT !.drag_coefficient = DEFAULT_DRAG_COEFFICIENT,
              !.drag_factor = 0,
              !.drag_calibration_samples = 0,
              !.calibration_complete = FALSE]

\* the drag coefficient a recovery pulse measures, in millionths
measured_k == 120

\* rowing_physics_calibrate_drag: valid is the truth of
\* |omega| >= 1 /\ 0 <= measured_k <= 0.01
rowing_physics_calibrate_drag(m, valid) ==
    IF valid
    THEN LET n == m.drag_calibration_samples + 1
             k1 == IF m.drag_calibration_samples = 0
                   THEN measured_k
                   ELSE (95 * m.drag_coefficient + 5 * measured_k) \div 100
         IN  [m EXCEPT !.drag_coefficient = k1,
                       !.drag_factor = k1 * 1000000,
                       !.drag_calibration_samples = n,
                       !.calibration_complete =
                           IF n >= CALIBRATION_SAMPLES /\ ~m.calibration_complete
                           THEN TRUE
                           ELSE @]
    ELSE m

\* the calibration step of rowing_physics_process_flywheel_pulse: in the
\* recovery phase, on a pulse with angular_acceleration < 0 (which a pulse
\* that passes the drive-acceleration test is not)
process_pulse_calibration(m, k, valid) ==
    IF m.current_phase = "RECOVERY" /\ ~k.accel
    THEN rowing_physics_calibrate_drag(m, valid)
    ELSE m

\* rowing_physics_process_flywheel_pulse: the pulse is counted first; the
\* angular velocity and acceleration it derives reach the stroke detector
\* as an element of Kinematics
rowing_physics_process_flywheel_pulse(m, k, valid) ==
    process_pulse_calibration([m EXCEPT !.flywheel_pulse_count = @ + 1],
                              k, valid)

\* the kinematics of rowing_physics_process_flywheel_pulse: the pulse is
\* counted, the first pulse and a pulse with an interval outside
\* [1 ms, 10 s] only set last_flywheel_time_us, any other pulse derives the
\* angular velocity and acceleration
AngularVelocity(delta_time_us) ==
    ((TWO_PI \div DEFAULT_MAGNETS_PER_REV) * 1000) \div delta_time_us

AngularAcceleration(omega, omega_before, delta_time_us) ==
    ((omega - omega_before) * 1000) \div delta_time_us

DeltaTimeInRange(delta_time_us) ==
    ~(delta_time_us < 1000 \/ delta_time_us > 10000000)

process_flywheel_pulse_kinematics(m, current_time_us) ==
    LET previous_time_us == m.last_flywheel_time_us
        m0 == [m EXCEPT !.flywheel_pulse_count = @ + 1,
                        !.last_flywheel_time_us = current_time_us]
        delta_time_us == current_time_us - previous_time_us
        angular_velocity == AngularVelocity(delta_time_us)
        angular_acceleration ==
            IF m.prev_angular_velocity_rad_s > 0
            THEN AngularAcceleration(angular_velocity,
                                     m.prev_angular_velocity_rad_s,
                                     delta_time_us)
            ELSE 0
    IN  IF previous_time_us = 0 \/ ~DeltaTimeInRange(delta_time_us)
        THEN m0
        ELSE [m0 EXCEPT
                 !.prev_angular_velocity_rad_s = m.angular_velocity_rad_s,
                 !.angular_velocity_rad_s = angular_velocity,
                 !.angular_acceleration_rad_s2 = angular_acceleration]

\* rowing_physics_calculate_distance: d is the clamped per-stroke distance
rowing_physics_calculate_distance(m, d) ==
    [m EXCEPT !.total_distance_meters = @ + d]

stroke_detector_update_any_drive(m, k, t, d) ==
    CASE m.current_phase = "IDLE" ->
            IF k.drive
            THEN [m EXCEPT !.current_phase = "DRIVE",
                           !.last_stroke_start_time_us = t]
            ELSE m
      [] m.current_phase = "DRIVE" ->
            IF k.peak
            THEN rowing_physics_calculate_distance(
                     [m EXCEPT !.current_phase = "RECOVERY",
                               !.stroke_count = @ + 1], d)
            ELSE m
      [] m.current_phase = "RECOVERY" ->
            IF k.slow
            THEN [m EXCEPT !.current_phase = "IDLE"]
            ELSE IF k.accel
            THEN [m EXCEPT !.current_phase = "DRIVE",
                           !.last_stroke_start_time_us = t]
            ELSE m

stroke_detector_update(m, k, t, d) ==
    CASE m.current_phase = "IDLE" ->
            IF k.drive
            THEN [m EXCEPT !.current_phase = "DRIVE",
                           !.last_stroke_start_time_us = t]
            ELSE m
      [] m.current_phase = "DRIVE" ->
            IF k.peak
            THEN LET drive_duration_ms ==
                         ((t - m.last_stroke_start_time_us) \div 1000)
                     m1 == [m EXCEPT !.current_phase = "RECOVERY"]
                 IN  IF drive_duration_ms >= MINIMUM_STROKE_DURATION_MS
                     THEN rowing_physics_calculate_distance(
                              [m1 EXCEPT !.stroke_count = @ + 1], d)
                     ELSE m1
            ELSE m
      [] m.current_phase = "RECOVERY" ->
            IF k.slow
            THEN [m EXCEPT !.current_phase = "IDLE"]
            ELSE IF k.accel
            THEN [m EXCEPT !.current_phase = "DRIVE",
                           !.last_stroke_start_time_us = t]
            ELSE m

\* stroke_detector_calculate_stroke_rate, in tenths of a stroke per minute
stroke_detector_calculate_stroke_rate(m) ==
    LET stroke_cycle_ms ==
            m.drive_phase_duration_ms + m.recovery_phase_duration_ms
        spm == 600000 \div stroke_cycle_ms
        instantaneous_spm ==
            IF spm < 100 THEN 100 ELSE IF spm > 600 THEN 600 ELSE spm
    IN  IF m.stroke_count < 2
        THEN [m EXCEPT !.stroke_rate_spm = 0]
        ELSE IF stroke_cycle_ms < 500
        THEN m
        ELSE [m EXCEPT !.stroke_rate_spm =
                  IF @ = 0
                  THEN instantaneous_spm
                  ELSE (7 * @ + 3 * instantaneous_spm) \div 10]

\* stroke_detector_update with the timing of the phases: the end of a drive
\* records its duration and, if the stroke is counted, computes the stroke
\* rate; the end of a recovery records its duration
stroke_detector_update_timed(m, k, t, d) ==
    LET m1 == stroke_detector_update(m, k, t, d)
    IN  IF m.current_phase = "DRIVE" /\ m1.current_phase = "RECOVERY"
        THEN LET m2 == [m1 EXCEPT
                           !.last_stroke_end_time_us = t,
                           !.drive_phase_duration_ms =
                               (t - m.last_stroke_start_time_us) \div 1000]
             IN  IF m1.stroke_count > m.stroke_count
                 THEN stroke_detector_calculate_stroke_rate(m2)
                 ELSE m2
        ELSE IF m.current_phase = "RECOVERY" /\ m1.current_phase # "RECOVERY"
        THEN [m1 EXCEPT !.recovery_phase_duration_ms =
                            (t - m.last_stroke_end_time_us) \div 1000]
        ELSE m1

\* stroke_detector_process_seat_trigger: fast is the truth of
\* angular_velocity > g_recovery_velocity
stroke_detector_process_seat_trigger(m, fast, t) ==
    IF m.current_phase \in {"IDLE", "RECOVERY"} /\ fast
    THEN [m EXCEPT !.current_phase = "DRIVE",
                   !.last_stroke_start_time_us = t]
    ELSE m

\* ------------------------------------------------------------------------
\* Pause accounting in the HTTP handlers (web_server.c)
\* ------------------------------------------------------------------------
\* (uint32_t)(paused_duration_us / 1000) if paused_duration_us > 0, else 0
PausedDurationMs(m, t) ==
    IF t - m.pause_start_time_us > 0
    THEN (t - m.pause_start_time_us) \div 1000
    ELSE 0

\* total_paused_time_ms += (uint32_t)(paused_duration_us / 1000), if > 0
AddPausedDuration(m, t) ==
    LET paused_duration_us == t - m.pause_start_time_us
    IN  IF paused_duration_us > 0
        THEN [m EXCEPT !.total_paused_time_ms =
                           (@ + (paused_duration_us \div 1000))]
        ELSE m

\* workout_pause_handler on g_metrics
workout_pause_always(m, t) ==
    [m EXCEPT !.is_paused = TRUE, !.pause_start_time_us = t]

workout_pause_metrics(m, t) ==
    IF ~m.is_paused
    THEN [m EXCEPT !.is_paused = TRUE, !.pause_start_time_us = t]
    ELSE m

\* workout_resume_handler on g_metrics
workout_resume_noaccount(m, t) ==
    IF m.is_paused
    THEN [m EXCEPT !.is_paused = FALSE, !.pause_start_time_us = 0,
                   !.last_resume_time_us = t]
    ELSE m

workout_resume_metrics(m, t) ==
    IF m.is_paused
    THEN [AddPausedDuration(m, t) EXCEPT !.is_paused = FALSE,
                                         !.pause_start_time_us = 0,
                                         !.last_resume_time_us = t]
    ELSE m

workout_start_resume_noaccount(m, t) ==
    LET m2 == IF m.session_start_time_us = 0
              THEN [m EXCEPT !.session_start_time_us = t]
              ELSE m
    IN  [m2 EXCEPT !.is_paused = FALSE, !.pause_start_time_us = 0,
                   !.last_resume_time_us = t]

\* the resume branch of workout_start_handler on g_metrics
workout_start_resume_metrics(m, t) ==
    LET m1 == IF m.pause_start_time_us > 0 THEN AddPausedDuration(m, t) ELSE m
        m2 == IF m1.session_start_time_us = 0
              THEN [m1 EXCEPT !.session_start_time_us = t]
              ELSE m1
    IN  [m2 EXCEPT !.is_paused = FALSE, !.pause_start_time_us = 0,
                   !.last_resume_time_us = t]

\* the "clear any paused state" prologue of workout_stop_handler
workout_stop_unpause(m, t) ==
    IF m.is_paused
    THEN [AddPausedDuration(m, t) EXCEPT !.is_paused = FALSE,
                                         !.pause_start_time_us = 0]
    ELSE m

\* ------------------------------------------------------------------------
\* session_manager.c: persistence
\* ------------------------------------------------------------------------
\* the session_record_t that session_manager_end_session builds
end_session_record_raw_elapsed(id, m, nsamples) ==
    [present |-> TRUE, session_id |-> id,
     start_timestamp |-> IF s_session_start_unix_ms > 0
                         THEN s_session_start_unix_ms
                         ELSE s_session_start_time \div 1000,
     duration_seconds |-> m.elapsed_time_ms,
     total_distance_meters |-> m.total_distance_meters,
     stroke_count |-> m.stroke_count,
     sample_count |-> nsamples, synced |-> 0]

end_session_record(id, m, nsamples) ==
    [present |-> TRUE, session_id |-> id,
     start_timestamp |-> IF s_session_start_unix_ms > 0
                         THEN s_session_start_unix_ms
                         ELSE s_session_start_time \div 1000,
     duration_seconds |-> m.elapsed_time_ms \div 1000,
     total_distance_meters |-> m.total_distance_meters,
     stroke_count |-> m.stroke_count,
     sample_count |-> nsamples, synced |-> 0]

\* "Only save if meaningful activity occurred"
end_session_strokes_only(m) ==
    ~(m.stroke_count < MIN_SAVE_STROKES)

end_session_should_save(m) ==
    ~(m.stroke_count < MIN_SAVE_STROKES
      \/ m.total_distance_meters < MIN_SAVE_DISTANCE_M)

\* session_manager_get_session: the return code and the record read from
\* key s{session_id % 20}.  The read-only nvs_open is taken to succeed.
get_session_any_id(recs, session_id) ==
    LET r == recs[SlotOf(session_id)]
    IN  IF ~r.present
        THEN [ret |-> "ESP_ERR_NVS_NOT_FOUND", rec |-> NoRecord]
        ELSE [ret |-> "ESP_OK", rec |-> r]

session_manager_get_session(recs, session_id) ==
    LET r == recs[SlotOf(session_id)]
    IN  IF ~r.present
        THEN [ret |-> "ESP_ERR_NVS_NOT_FOUND", rec |-> NoRecord]
        ELSE IF r.session_id # session_id
        THEN [ret |-> "ESP_ERR_NOT_FOUND", rec |-> r]
        ELSE [ret |-> "ESP_OK", rec |-> r]

\* session_manager_get_samples into a buffer of buffer_size rows: the
\* session under way is served from the sample buffer, any other id from key
\* d{session_id % 20}; nvs_get_blob refuses a blob longer than the buffer.
session_manager_get_samples(cur_id, rows, dat, session_id, buffer_size) ==
    IF session_id = cur_id
    THEN [ret |-> "ESP_OK",
          rows |-> SubSeq(rows, 1,
                          IF Len(rows) < buffer_size
                          THEN Len(rows) ELSE buffer_size)]
    ELSE LET b == dat[SlotOf(session_id)]
         IN  IF ~b.present
             THEN [ret |-> "ESP_ERR_NVS_NOT_FOUND", rows |-> <<>>]
             ELSE IF Len(b.rows) > buffer_size
             THEN [ret |-> "ESP_ERR_NVS_INVALID_LENGTH", rows |-> <<>>]
             ELSE [ret |-> "ESP_OK", rows |-> b.rows]

\* the two nvs_erase_key calls of session_manager_delete_session
delete_erase_record(recs, session_id) ==
    [recs EXCEPT ![SlotOf(session_id)] = NoRecord]

delete_keep_samples(dat, session_id) == dat

delete_erase_samples(dat, session_id) ==
    [dat EXCEPT ![SlotOf(session_id)] = NoBlob]

\* wifi_manager_get_unix_time_ms
\* the accumulators of the sampler, as session_manager_start_session sets them
ZeroTotals ==
    [heart_rate_sum |-> 0, heart_rate_count |-> 0, max_heart_rate |-> 0,
     stroke_rate_sum |-> 0, stroke_rate_samples |-> 0]

\* no BLE central, no WebSocket, no SSE stream
NoClients == [ble |-> "none", ws |-> "none", sse |-> "none"]

wifi_manager_get_unix_time_ms ==
    IF s_time_synced THEN WallEpochMs + (now \div 1000) ELSE 0

\* session_manager_start_session, m being *metrics on entry
start_session_reuse_last_id(m) ==
    /\ s_session_count + 1 <= MaxSessionId
    /\ s_current_session_id' = s_session_count
    /\ s_session_start_time' = now
    /\ s_session_start_unix_ms' = wifi_manager_get_unix_time_ms
    /\ s_sample_buffer' = <<>>
    /\ s_last_distance' = 0
    /\ s_sample_totals' = ZeroTotals
    /\ s_stroke_count_at_resume' = m.stroke_count
    /\ metrics' = [m EXCEPT !.session_start_time_us = now,
                            !.is_paused = FALSE,
                            !.pause_start_time_us = 0,
                            !.total_paused_time_ms = 0,
                            !.last_resume_time_us = now]
    /\ UNCHANGED s_session_count

session_manager_start_session(m) ==
    /\ s_session_count + 1 <= MaxSessionId
    /\ s_current_session_id' = s_session_count + 1
    /\ s_session_start_time' = now
    /\ s_session_start_unix_ms' = wifi_manager_get_unix_time_ms
    /\ s_sample_buffer' = <<>>
    /\ s_last_distance' = 0
    /\ s_sample_totals' = ZeroTotals
    /\ s_stroke_count_at_resume' = m.stroke_count
    /\ metrics' = [m EXCEPT !.session_start_time_us = now,
                            !.is_paused = FALSE,
                            !.pause_start_time_us = 0,
                            !.total_paused_time_ms = 0,
                            !.last_resume_time_us = now]
    /\ UNCHANGED s_session_count

\* session_manager_end_session, m being *metrics on entry; the three flags
\* are the outcomes of nvs_open, nvs_set_blob(record), nvs_set_blob(samples).
\* Sets op.ret to the return code and op.note to the branch taken.
session_manager_end_session(m, open_ok, rec_ok, dat_ok) ==
    LET id == s_current_session_id
        slot == SlotOf(id)
        record == end_session_record(id, m, Len(s_sample_buffer))
    IN  IF id = 0
        THEN /\ op' = Op("stop", id, "ESP_ERR_INVALID_STATE", "no_session")
             /\ metrics' = m
             /\ UNCHANGED <<smVars, nvsVars>>
        ELSE IF ~end_session_should_save(m)
        THEN /\ op' = Op("stop", id, "ESP_OK", "too_short")
             /\ s_current_session_id' = 0
             /\ metrics' = m
             /\ UNCHANGED <<s_session_count,
                            s_stroke_count_at_resume, s_sample_buffer,
                            s_last_distance, s_sample_totals,
                            startVars, nvsVars>>
        ELSE IF ~open_ok
        THEN /\ op' = Op("stop", id, "ESP_FAIL", "open_failed")
             /\ metrics' = m
             /\ UNCHANGED <<smVars, nvsVars>>
        ELSE IF ~rec_ok
        THEN /\ op' = Op("stop", id, "ESP_FAIL", "write_failed")
             /\ metrics' = m
             /\ UNCHANGED <<smVars, nvsVars>>
        ELSE /\ op' = Op("stop", id, "ESP_OK", "saved")
             /\ nvs_rec' = [nvs_rec EXCEPT ![slot] = record]
             /\ nvs_dat' = IF Len(s_sample_buffer) > 0 /\ dat_ok
                           THEN [nvs_dat EXCEPT ![slot] =
                                    [present |-> TRUE, rows |-> s_sample_buffer]]
                           ELSE nvs_dat
             /\ s_session_count' = id
             /\ nvs_count' = id
             /\ s_current_session_id' = 0
             /\ metrics' = [m EXCEPT !.session_start_time_us = 0,
                                     !.elapsed_time_ms = 0]
             /\ committed' = [committed EXCEPT ![id] = record]
             /\ UNCHANGED <<s_stroke_count_at_resume,
                            s_sample_buffer, s_last_distance, s_sample_totals,
                            startVars,
                            deleted>>

\* session_manager_record_sample: the row appended for heart rate hr
record_sample_row(m, hr) ==
    LET distance_delta == IF m.total_distance_meters - s_last_distance < 0
                          THEN 0
                          ELSE m.total_distance_meters - s_last_distance
        distance_dm == IF distance_delta * 10 > 65535 THEN 65535
                       ELSE distance_delta * 10
    IN  [heart_rate |-> hr, distance_dm |-> distance_dm]

\* session_manager_record_sample: the accumulators after a row with heart
\* rate hr, stroke_rate_spm being metrics->stroke_rate_spm
record_sample_totals(t, hr, stroke_rate_spm) ==
    LET t1 == IF hr > 0
              THEN [t EXCEPT !.heart_rate_sum = @ + hr,
                             !.heart_rate_count = @ + 1,
                             !.max_heart_rate = IF hr > @ THEN hr ELSE @]
              ELSE t
    IN  IF stroke_rate_spm > 0
        THEN [t1 EXCEPT !.stroke_rate_sum = @ + stroke_rate_spm,
                        !.stroke_rate_samples = @ + 1]
        ELSE t1

record_sample_never_full == FALSE

\* "Buffer full - could implement circular buffer or stop recording"
record_sample_buffer_full == Len(s_sample_buffer) >= SAMPLE_BUFFER_SIZE

\* session_manager_record_sample; max_rows bounds the rows a run records
session_manager_record_sample(hr, stroke_rate_spm, max_rows) ==
    /\ Len(s_sample_buffer) < max_rows
    /\ IF s_current_session_id = 0
       THEN UNCHANGED <<s_sample_buffer, s_last_distance, s_sample_totals>>
       ELSE IF record_sample_buffer_full
       THEN UNCHANGED <<s_sample_buffer, s_last_distance, s_sample_totals>>
       ELSE /\ s_sample_buffer' =
                   Append(s_sample_buffer, record_sample_row(metrics, hr))
            /\ s_last_distance' = metrics.total_distance_meters
            /\ s_sample_totals' =
                   record_sample_totals(s_sample_totals, hr, stroke_rate_spm)
    /\ UNCHANGED <<now, metrics, s_current_session_id,
                   s_session_count, s_stroke_count_at_resume, startVars,
                   nvsVars, hrVars, cfgVars, bleVars, isrVars, op>>

web_server_never_calibrating_inertia == FALSE

\* web_server_is_calibrating_inertia
web_server_is_calibrating_inertia ==
    calibration_state \in {"WAITING", "SPINUP", "SPINDOWN"}

\* rowing_physics_start_inertia_calibration (declared in rowing_physics.h,
\* defined outside the sources at hand): the calibration waits for the
\* operator to spin the flywheel
rowing_physics_start_inertia_calibration == "WAITING"

\* rowing_physics_cancel_inertia_calibration (likewise)
rowing_physics_cancel_inertia_calibration == "IDLE"

\* rowing_physics_update_inertia_calibration (likewise): Waiting -> Spinup on
\* the first pulse, Spinup -> Spindown when the velocity drops below 90% of
\* its peak, Spindown -> Complete when the flywheel has stopped, and Failed
\* on a timeout in any of the three
CalibrationEvents == {"pulse", "drop", "stopped", "timeout"}

rowing_physics_update_inertia_calibration(state, ev) ==
    IF ev = "timeout" THEN "FAILED"
    ELSE IF state = "WAITING" /\ ev = "pulse" THEN "SPINUP"
    ELSE IF state = "SPINUP" /\ ev = "drop" THEN "SPINDOWN"
    ELSE IF state = "SPINDOWN" /\ ev = "stopped" THEN "COMPLETE"
    ELSE state

\* POST /api/calibrate/inertia/start: with fewer than 10 drag samples the
\* default drag coefficient is used
api_calibrate_inertia_start_handler ==
    /\ metrics' = IF metrics.drag_calibration_samples < 10
                  THEN [metrics EXCEPT
                            !.drag_coefficient = DEFAULT_DRAG_COEFFICIENT]
                  ELSE metrics
    /\ calibration_state' = rowing_physics_start_inertia_calibration
    /\ UNCHANGED <<now, smVars, nvsVars, hrVars, auto_pause_seconds,
                   s_time_synced, isrVars, bleVars, op>>

\* POST /api/calibrate/inertia/cancel
api_calibrate_inertia_cancel_handler ==
    /\ calibration_state' = rowing_physics_cancel_inertia_calibration
    /\ UNCHANGED <<now, metrics, smVars, nvsVars, hrVars, auto_pause_seconds,
                   s_time_synced, isrVars, bleVars, op>>

\* web_server_update_inertia_calibration
web_server_update_inertia_calibration(ev) ==
    /\ calibration_state' =
           IF calibration_state \in {"IDLE", "COMPLETE", "FAILED"}
           THEN calibration_state
           ELSE rowing_physics_update_inertia_calibration(calibration_state, ev)
    /\ UNCHANGED <<now, metrics, smVars, nvsVars, hrVars, auto_pause_seconds,
                   s_time_synced, isrVars, bleVars, op>>

check_activity_resume_noaccount(m, t) ==
    LET m2 == IF m.session_start_time_us = 0
              THEN [m EXCEPT !.session_start_time_us = t]
              ELSE m
    IN  [m2 EXCEPT !.is_paused = FALSE, !.pause_start_time_us = 0,
                   !.last_resume_time_us = t]

\* the auto-resume branch of session_manager_check_activity on *metrics
check_activity_resume_metrics(m, t) ==
    LET m1 == IF m.pause_start_time_us > 0 THEN AddPausedDuration(m, t) ELSE m
        m2 == IF m1.session_start_time_us = 0
              THEN [m1 EXCEPT !.session_start_time_us = t]
              ELSE m1
    IN  [m2 EXCEPT !.is_paused = FALSE, !.pause_start_time_us = 0,
                   !.last_resume_time_us = t]

check_activity_pause_after_strokes_only ==
    LET auto_pause_timeout_ms == auto_pause_seconds * 1000
        last_activity_time == metrics.last_stroke_start_time_us
        time_since_activity_ms ==
            IF last_activity_time > 0
            THEN (now - last_activity_time) \div 1000
            ELSE 0
        has_recent_activity ==
            last_activity_time > 0
            /\ time_since_activity_ms < auto_pause_timeout_ms
        has_completed_stroke == metrics.stroke_count > 0
        session_active == s_current_session_id > 0
        is_paused == metrics.is_paused
    IN  /\ UNCHANGED <<now, nvsVars, hrVars, cfgVars, bleVars, isrVars, op>>
        /\ IF web_server_is_calibrating_inertia \/ auto_pause_seconds = 0
           THEN /\ UNCHANGED <<metrics, smVars>>
           ELSE IF has_recent_activity /\ has_completed_stroke /\ ~session_active
           THEN /\ session_manager_start_session(metrics)
           ELSE IF has_recent_activity /\ has_completed_stroke /\ is_paused
           THEN /\ metrics' = check_activity_resume_metrics(metrics, now)
                /\ s_stroke_count_at_resume' = metrics.stroke_count
                /\ UNCHANGED <<s_current_session_id,
                               s_session_count, s_sample_buffer,
                               s_last_distance, s_sample_totals,
                            startVars>>
           ELSE IF ~has_recent_activity /\ session_active /\ ~is_paused
                   /\ metrics.stroke_count > s_stroke_count_at_resume
           THEN /\ metrics' = [metrics EXCEPT !.is_paused = TRUE,
                                              !.pause_start_time_us = now]
                /\ UNCHANGED smVars
           ELSE /\ UNCHANGED <<metrics, smVars>>

check_activity_any_stroke_count(m) == TRUE

\* has_completed_stroke of session_manager_check_activity
check_activity_has_completed_stroke(m) == m.stroke_count > 0

\* session_manager_check_activity
session_manager_check_activity ==
    LET auto_pause_timeout_ms == auto_pause_seconds * 1000
        last_activity_time == metrics.last_stroke_start_time_us
        time_since_activity_ms ==
            IF last_activity_time > 0
            THEN (now - last_activity_time) \div 1000
            ELSE 0
        has_recent_activity ==
            last_activity_time > 0
            /\ time_since_activity_ms < auto_pause_timeout_ms
        has_completed_stroke == check_activity_has_completed_stroke(metrics)
        session_active == s_current_session_id > 0
        is_paused == metrics.is_paused
    IN  /\ UNCHANGED <<now, nvsVars, hrVars, cfgVars, bleVars, isrVars, op>>
        /\ IF web_server_is_calibrating_inertia \/ auto_pause_seconds = 0
           THEN /\ UNCHANGED <<metrics, smVars>>
           ELSE IF has_recent_activity /\ has_completed_stroke /\ ~session_active
           THEN /\ session_manager_start_session(metrics)
           ELSE IF has_recent_activity /\ has_completed_stroke /\ is_paused
           THEN /\ metrics' = check_activity_resume_metrics(metrics, now)
                /\ s_stroke_count_at_resume' = metrics.stroke_count
                /\ UNCHANGED <<s_current_session_id,
                               s_session_count, s_sample_buffer,
                               s_last_distance, s_sample_totals,
                            startVars>>
           ELSE IF ~has_recent_activity /\ session_active /\ ~is_paused
           THEN /\ metrics' = [metrics EXCEPT !.is_paused = TRUE,
                                              !.pause_start_time_us = now]
                /\ UNCHANGED smVars
           ELSE /\ UNCHANGED <<metrics, smVars>>

\* the auto-resume arm of session_manager_check_activity in two steps: the
\* check finds a paused session with activity and reads the pause start
\* (enter), then adds the duration and clears the pause (leave)
check_activity_resume_enter ==
    LET last_activity_time == metrics.last_stroke_start_time_us
        has_recent_activity ==
            /\ last_activity_time > 0
            /\ (now - last_activity_time) \div 1000 < auto_pause_seconds * 1000
    IN  /\ auto_local = <<>>
        /\ ~web_server_is_calibrating_inertia
        /\ auto_pause_seconds # 0
        /\ has_recent_activity
        /\ check_activity_has_completed_stroke(metrics)
        /\ s_current_session_id > 0
        /\ metrics.is_paused
        /\ auto_local' = <<[now |-> now,
                            paused_ms |->
                                IF metrics.pause_start_time_us > 0
                                THEN PausedDurationMs(metrics, now)
                                ELSE 0]>>
        /\ UNCHANGED <<now, metrics, smVars, nvsVars, hrVars, cfgVars,
                       isrVars, packet, ble_partial, castVars, http_local,
                       fdVars, op>>

check_activity_resume_leave ==
    /\ auto_local # <<>>
    /\ metrics' = [metrics EXCEPT
                      !.total_paused_time_ms = @ + auto_local[1].paused_ms,
                      !.session_start_time_us =
                          IF @ = 0 THEN auto_local[1].now ELSE @,
                      !.is_paused = FALSE,
                      !.pause_start_time_us = 0,
                      !.last_resume_time_us = auto_local[1].now]
    /\ s_stroke_count_at_resume' = metrics.stroke_count
    /\ auto_local' = <<>>
    /\ UNCHANGED <<now, s_current_session_id, s_session_count,
                   s_sample_buffer, s_last_distance, s_sample_totals,
                   startVars, nvsVars, hrVars, cfgVars, isrVars,
                   packet, ble_partial, castVars, http_local, fdVars, op>>

\* session_manager_delete_session; open_ok is the outcome of the
\* read-write nvs_open.  nvs_erase_key on the open handle is taken to succeed
\* (the code ignores the result of the second erase and of nvs_commit).
session_manager_delete_session(session_id, open_ok) ==
    /\ UNCHANGED <<now, metrics, smVars, nvs_count, committed, hrVars, cfgVars, bleVars, isrVars>>
    /\ IF session_id = 0 \/ session_id > s_session_count
       THEN /\ op' = Op("delete", session_id, "ESP_ERR_NOT_FOUND", "range")
            /\ UNCHANGED <<nvs_rec, nvs_dat, deleted>>
       ELSE IF session_manager_get_session(nvs_rec, session_id).ret # "ESP_OK"
       THEN /\ op' = Op("delete", session_id, "ESP_ERR_NOT_FOUND", "absent")
            /\ UNCHANGED <<nvs_rec, nvs_dat, deleted>>
       ELSE IF ~open_ok
       THEN /\ op' = Op("delete", session_id, "ESP_FAIL", "open_failed")
            /\ UNCHANGED <<nvs_rec, nvs_dat, deleted>>
       ELSE /\ op' = Op("delete", session_id, "ESP_OK", "deleted")
            /\ nvs_rec' = delete_erase_record(nvs_rec, session_id)
            /\ nvs_dat' = delete_erase_samples(nvs_dat, session_id)
            /\ deleted' = deleted \cup {session_id}

\* ------------------------------------------------------------------------
\* hr_receiver.c
\* ------------------------------------------------------------------------
get_time_ms == now \div 1000

\* hr_receiver_update on the state of hr_receiver.c
hr_receiver_update_state(bpm) ==
    /\ ~s_recording \/ Len(s_hr_buffer) < MaxHrSamples
    /\ IF bpm = 0 \/ bpm > 220
       THEN UNCHANGED <<s_hr_buffer, hrNowVars>>
       ELSE /\ s_current_hr' = bpm
            /\ s_last_update_time_ms' = get_time_ms
            /\ s_hr_buffer' =
                   IF s_recording /\ Len(s_hr_buffer) < MAX_HR_SAMPLES
                   THEN Append(s_hr_buffer, bpm)
                   ELSE s_hr_buffer

hr_receiver_update(bpm) ==
    /\ hr_receiver_update_state(bpm)
    /\ UNCHANGED <<now, metrics, smVars, nvsVars, s_recording, cfgVars, bleVars, isrVars, op>>

\* POST /hr with the number hr in the query or the body (atoi)
hr_post_handler(hr) ==
    /\ IF hr > 0 /\ hr <= 220
       THEN /\ hr_receiver_update_state(hr)
            /\ op' = Op("hr", hr, "ESP_OK", "OK")
       ELSE /\ UNCHANGED <<s_hr_buffer, hrNowVars>>
            /\ op' = Op("hr", hr, "ESP_FAIL", "Invalid HR value")
    /\ UNCHANGED <<now, metrics, smVars, nvsVars, s_recording, cfgVars,
                   bleVars, isrVars>>

\* ble_hr_client.c, parse_heart_rate: the value before the range test.
\* data is the Heart Rate Measurement, flags first.
parse_heart_rate_raw(data) ==
    IF Len(data) < 2 THEN 0
    ELSE IF data[1] % 2 = 1
    THEN (IF Len(data) >= 3 THEN data[2] + 256 * data[3] ELSE 0)
    ELSE data[2]

\* parse_heart_rate: "30-220 bpm considered valid", 0 otherwise
parse_heart_rate(data) ==
    LET hr == parse_heart_rate_raw(data)
    IN  IF Len(data) < 2 \/ hr < 30 \/ hr > 220 THEN 0 ELSE hr

\* ble_hr_client.c, BLE_GAP_EVENT_NOTIFY_RX on the measurement handle
ble_hr_notify_rx(data) ==
    /\ IF parse_heart_rate(data) > 0
       THEN hr_receiver_update_state(parse_heart_rate(data))
       ELSE UNCHANGED <<s_hr_buffer, hrNowVars>>
    /\ UNCHANGED <<now, metrics, smVars, nvsVars, s_recording, cfgVars,
                   bleVars, isrVars, op>>

\* ------------------------------------------------------------------------
\* wifi_manager.c
\* ------------------------------------------------------------------------
\* sntp_sync_callback: the wall clock becomes valid
sntp_sync_callback ==
    /\ ~s_time_synced
    /\ s_time_synced' = TRUE
    /\ UNCHANGED <<now, metrics, smVars, nvsVars, hrVars,
                   auto_pause_seconds, calibration_state, isrVars, bleVars,
                   op>>

\* ------------------------------------------------------------------------
\* web_server.c: workout control endpoints
\* ------------------------------------------------------------------------
\* POST /workout/start
workout_start_handler ==
    /\ UNCHANGED <<now, nvsVars, cfgVars, bleVars, isrVars>>
    /\ IF s_current_session_id > 0 /\ metrics.is_paused
       THEN /\ metrics' = workout_start_resume_metrics(metrics, now)
            /\ op' = Op("start", s_current_session_id, "ESP_OK", "resumed")
            /\ UNCHANGED <<smVars, hrVars>>
       ELSE /\ s_hr_buffer' = <<>>
            /\ s_recording' = TRUE
            /\ UNCHANGED hrNowVars
            /\ session_manager_start_session(rowing_physics_reset(metrics))
            /\ op' = Op("start", s_session_count + 1, "ESP_OK", "started")

\* POST /workout/stop
workout_stop_handler(open_ok, rec_ok, dat_ok) ==
    /\ s_recording' = FALSE
    /\ session_manager_end_session(workout_stop_unpause(metrics, now),
                                   open_ok, rec_ok, dat_ok)
    /\ UNCHANGED <<now, s_hr_buffer, hrNowVars, cfgVars, bleVars, isrVars>>

\* POST /workout/pause
workout_pause_handler ==
    /\ metrics' = workout_pause_metrics(metrics, now)
    /\ op' = Op("pause", s_current_session_id, "ESP_OK",
                IF ~metrics.is_paused THEN "paused" ELSE "already_paused")
    /\ UNCHANGED <<now, smVars, nvsVars, hrVars, cfgVars, bleVars, isrVars>>

\* POST /workout/resume
workout_resume_handler ==
    /\ metrics' = workout_resume_metrics(metrics, now)
    /\ op' = Op("resume", s_current_session_id, "ESP_OK",
                IF metrics.is_paused THEN "resumed" ELSE "not_paused")
    /\ UNCHANGED <<now, smVars, nvsVars, hrVars, cfgVars, bleVars, isrVars>>

\* POST /workout/resume in two steps, for the tasks that run between them:
\* the handler finds the session paused, reads the clock and the pause
\* start (enter), then adds the duration and clears the pause (leave).
workout_resume_handler_enter ==
    /\ http_local = <<>>
    /\ metrics.is_paused
    /\ http_local' = <<[now |-> now,
                        paused_ms |-> PausedDurationMs(metrics, now)]>>
    /\ UNCHANGED <<now, metrics, smVars, nvsVars, hrVars, cfgVars, isrVars,
                   packet, ble_partial, castVars, auto_local, fdVars, op>>

workout_resume_handler_leave ==
    /\ http_local # <<>>
    /\ metrics' = [metrics EXCEPT
                      !.total_paused_time_ms = @ + http_local[1].paused_ms,
                      !.is_paused = FALSE,
                      !.pause_start_time_us = 0,
                      !.last_resume_time_us = http_local[1].now]
    /\ http_local' = <<>>
    /\ op' = Op("resume", s_current_session_id, "ESP_OK", "resumed")
    /\ UNCHANGED <<now, smVars, nvsVars, hrVars, cfgVars, isrVars,
                   packet, ble_partial, castVars, auto_local, fdVars>>

\* POST /api/reset and the WebSocket "reset" command
api_reset_handler ==
    /\ metrics' = rowing_physics_reset(metrics)
    /\ op' = Op("reset", s_current_session_id, "ESP_OK", "")
    /\ UNCHANGED <<now, smVars, nvsVars, hrVars, cfgVars, bleVars, isrVars>>

\* ------------------------------------------------------------------------
\* Tasks
\* ------------------------------------------------------------------------
\* one 10 Hz round of metrics_update_task (metrics_calculator_update)
metrics_update_task ==
    /\ metrics' = rowing_physics_update_elapsed_time(metrics, now)
    /\ UNCHANGED <<now, smVars, nvsVars, hrVars, cfgVars, bleVars, isrVars, op>>

\* one round of sensor_processing_task woken by a flywheel pulse, seen from
\* the session: the event group, the debounce, the pulse counters and the
\* idle timeout are in sensor_processing_task_loop below
sensor_processing_task(k, d, max_strokes) ==
    LET m1 == stroke_detector_update(metrics, k, now, d)
    IN  /\ m1.stroke_count <= max_strokes
        /\ metrics' = rowing_physics_update_elapsed_time(m1, now)
        /\ UNCHANGED <<now, smVars, nvsVars, hrVars, cfgVars, bleVars, isrVars, op>>

\* one round of sensor_processing_task woken by a flywheel pulse, with the
\* timing of the stroke phases
sensor_processing_task_timed(k, d, max_strokes) ==
    LET m1 == stroke_detector_update_timed(metrics, k, now, d)
    IN  /\ m1.stroke_count <= max_strokes
        /\ metrics' = rowing_physics_update_elapsed_time(m1, now)
        /\ UNCHANGED <<now, smVars, nvsVars, hrVars, cfgVars, bleVars, isrVars, op>>

\* one round of sensor_processing_task woken by a flywheel pulse, seen from
\* the drag calibration (the pulse counter is left out)
sensor_processing_task_calibrate(k, valid, d) ==
    LET m0 == process_pulse_calibration(metrics, k, valid)
        m1 == stroke_detector_update(m0, k, now, d)
    IN  /\ m0.drag_calibration_samples <= MaxCalibrationSamples
        /\ m1.stroke_count <= MaxStrokes
        /\ metrics' = rowing_physics_update_elapsed_time(m1, now)
        /\ UNCHANGED <<now, smVars, nvsVars, hrVars, cfgVars, bleVars, isrVars, op>>

\* one round of sensor_processing_task woken by a flywheel pulse, with the
\* power the pulse yields
sensor_processing_task_power(k, d, total_power) ==
    LET m0 == rowing_physics_calculate_power(metrics, total_power)
        m1 == stroke_detector_update(m0, k, now, d)
    IN  /\ m0.total_work_joules <= MaxWorkJoules
        /\ m1.stroke_count <= MaxStrokes
        /\ metrics' = rowing_physics_update_elapsed_time(m1, now)
        /\ UNCHANGED <<now, smVars, nvsVars, hrVars, cfgVars, bleVars, isrVars, op>>

\* rowing_physics_reset_calibration applied to g_metrics
reset_calibration ==
    /\ metrics' = rowing_physics_reset_calibration(metrics)
    /\ UNCHANGED <<now, smVars, nvsVars, hrVars, cfgVars, bleVars, isrVars, op>>

\* one round of sensor_processing_task woken by a seat trigger, seen from
\* the session
sensor_processing_task_seat(fast) ==
    LET m1 == stroke_detector_process_seat_trigger(metrics, fast, now)
    IN  /\ metrics' = rowing_physics_update_elapsed_time(m1, now)
        /\ UNCHANGED <<now, smVars, nvsVars, hrVars, cfgVars, bleVars, isrVars, op>>

\* ------------------------------------------------------------------------
\* ble_ftms_server.c: the Rower Data notification
\* ------------------------------------------------------------------------
\* (uint8_t)(x & 0xFF) and (uint8_t)((x >> n) & 0xFF)
Byte0(x) == x % 256
Byte1(x) == (x \div 256) % 256
Byte2(x) == (x \div 65536) % 256

\* the flags word build_rower_data_packet assembles (the bits are disjoint,
\* so |= is +)
rower_data_flags ==
    ROWER_TOTAL_DISTANCE_FLAG + ROWER_INST_PACE_FLAG + ROWER_AVG_PACE_FLAG
    + ROWER_INST_POWER_FLAG + ROWER_AVG_POWER_FLAG
    + ROWER_EXPENDED_ENERGY_FLAG + ROWER_ELAPSED_TIME_FLAG

\* "if (pace > 9999) pace = 0" on the uint16_t value
PaceField(p) == LET pace == p % 65536 IN IF pace > 9999 THEN 0 ELSE pace

\* build_rower_data_packet up to and including the stroke count
build_rower_data_head(m, dm) ==
    <<Byte0(rower_data_flags), Byte1(rower_data_flags),
      Byte0(dm.stroke_rate_x2),
      Byte0(m.stroke_count), Byte1(m.stroke_count)>>

build_rower_data_tail_short(m, dm) ==
    <<Byte0(m.total_distance_meters), Byte1(m.total_distance_meters),
      Byte2(m.total_distance_meters),
      Byte0(PaceField(dm.instantaneous_pace)),
      Byte1(PaceField(dm.instantaneous_pace)),
      Byte0(PaceField(dm.average_pace)), Byte1(PaceField(dm.average_pace)),
      Byte0(dm.instantaneous_power), Byte1(dm.instantaneous_power),
      Byte0(dm.average_power), Byte1(dm.average_power),
      Byte0(dm.total_calories), Byte1(dm.total_calories),
      Byte0(dm.calories_per_hour), Byte1(dm.calories_per_hour),
      Byte0(m.elapsed_time_ms \div 1000),
      Byte1(m.elapsed_time_ms \div 1000)>>

\* build_rower_data_packet from the total distance to the elapsed time
build_rower_data_tail(m, dm) ==
    <<Byte0(m.total_distance_meters), Byte1(m.total_distance_meters),
      Byte2(m.total_distance_meters),
      Byte0(PaceField(dm.instantaneous_pace)),
      Byte1(PaceField(dm.instantaneous_pace)),
      Byte0(PaceField(dm.average_pace)), Byte1(PaceField(dm.average_pace)),
      Byte0(dm.instantaneous_power), Byte1(dm.instantaneous_power),
      Byte0(dm.average_power), Byte1(dm.average_power),
      Byte0(dm.total_calories), Byte1(dm.total_calories),
      Byte0(dm.calories_per_hour), Byte1(dm.calories_per_hour),
      Byte0(dm.calories_per_hour \div 60),
      Byte0(m.elapsed_time_ms \div 1000),
      Byte1(m.elapsed_time_ms \div 1000)>>

\* ble_ftms_notify_metrics(&g_metrics) called by broadcast_task reads the
\* live struct field by field, with no lock.  The sensor task has the
\* higher priority and can run between two of the reads; the model lets it
\* run between the read of the stroke count and that of the distance.
\* The client is taken to be connected with notifications enabled.
ble_ftms_notify_begin(dm) ==
    /\ ble_partial = <<>>
    /\ ble_partial' = build_rower_data_head(metrics, dm)
    /\ UNCHANGED <<now, metrics, smVars, nvsVars, hrVars, cfgVars, isrVars,
                   packet, castVars, stepVars, op>>

ble_ftms_notify_end(dm) ==
    /\ ble_partial # <<>>
    /\ packet' = ble_partial \o build_rower_data_tail(metrics, dm)
    /\ ble_partial' = <<>>
    /\ UNCHANGED <<now, metrics, smVars, nvsVars, hrVars, cfgVars, isrVars,
                   castVars, stepVars, op>>

\* ------------------------------------------------------------------------
\* main.c: broadcast_task, and the clients it serves
\* ------------------------------------------------------------------------
ble_divisor == BLE_NOTIFY_INTERVAL_MS \div 100
ws_divisor == WS_BROADCAST_INTERVAL_MS \div 100

\* config_manager_load at boot, before the tasks start: the flags stored in
\* NVS replace the defaults
config_manager_load(wifi_en, ble_en) ==
    /\ broadcast_ticks = 0
    /\ clients = NoClients
    /\ g_config' = [wifi_enabled |-> wifi_en, ble_enabled |-> ble_en]
    /\ UNCHANGED <<now, metrics, smVars, nvsVars, hrVars, cfgVars, isrVars,
                   packet, ble_partial, ble_counter, ws_counter,
                   broadcast_ticks, served, clients, stepVars, op>>

\* a BLE central subscribes, a WebSocket is opened (ws_add_client), an SSE
\* stream is opened (sse_add_client); the servers run only if enabled
client_connect(kind) ==
    /\ IF kind = "ble" THEN g_config.ble_enabled ELSE g_config.wifi_enabled
    /\ clients' = [clients EXCEPT ![kind] = "live"]
    /\ UNCHANGED <<now, metrics, smVars, nvsVars, hrVars, cfgVars, isrVars,
                   packet, ble_partial, ble_counter, ws_counter,
                   broadcast_ticks, served, g_config, stepVars, op>>

\* the client goes away: a BLE disconnect event or a closed socket that the
\* server notices (clean), or a socket that dies with its fd still listed
client_disconnect(kind, clean) ==
    /\ clients[kind] = "live"
    /\ clients' = [clients EXCEPT
                      ![kind] = IF clean \/ kind = "ble" THEN "none"
                                ELSE "dead"]
    /\ UNCHANGED <<now, metrics, smVars, nvsVars, hrVars, cfgVars, isrVars,
                   packet, ble_partial, ble_counter, ws_counter,
                   broadcast_ticks, served, g_config, stepVars, op>>

web_server_has_ws_only(c) == c.ws # "none"

\* web_server_has_ws_clients: "any WebSocket or SSE clients are connected"
web_server_has_ws_clients(c) == c.ws # "none" \/ c.sse # "none"

\* what httpd_ws_send_frame_async returns, and the errno send() leaves
\* ("OK": the frame was written)
WsSendResults == {"ESP_OK", "ESP_ERR_INVALID_ARG", "ESP_FAIL"}
SseSendErrnos == {"OK", "EAGAIN", "EPIPE"}

ws_send_any_failure_is_dead(ret) == ret # "ESP_OK"

\* the send results after which web_server_broadcast_metrics lists the fd
\* as dead: any other error "might be temporary"
ws_send_is_dead(ret) == ret = "ESP_ERR_INVALID_ARG"

sse_send_is_dead(err) == err \notin {"OK", "EAGAIN", "EWOULDBLOCK"}

\* web_server_broadcast_metrics: the client lists it leaves; a socket that
\* is no longer valid is removed, and so is a client whose send fails for
\* good
web_server_broadcast_metrics(c, ws_ret, sse_errno) ==
    [c EXCEPT !.ws = IF @ = "live" /\ ~ws_send_is_dead(ws_ret)
                     THEN "live" ELSE "none",
              !.sse = IF @ = "live" /\ ~sse_send_is_dead(sse_errno)
                      THEN "live" ELSE "none"]

\* one round of the loop of broadcast_task, with the results of the sends
\* to the WebSocket and to the SSE client
broadcast_task(dm, ws_ret, sse_errno) ==
    LET ble_due == ble_counter + 1 >= ble_divisor /\ g_config.ble_enabled
        ws_due == ws_counter + 1 >= ws_divisor /\ g_config.wifi_enabled
        notify == ble_due /\ clients.ble = "live"
        push == ws_due /\ web_server_has_ws_clients(clients)
    IN  /\ broadcast_ticks < MaxBroadcastTicks
        /\ ble_partial = <<>>
        /\ broadcast_ticks' = broadcast_ticks + 1
        /\ ble_counter' = IF ble_due THEN 0 ELSE ble_counter + 1
        /\ ws_counter' = IF ws_due THEN 0 ELSE ws_counter + 1
        /\ packet' = IF notify
                     THEN build_rower_data_head(metrics, dm)
                            \o build_rower_data_tail(metrics, dm)
                     ELSE packet
        /\ clients' = IF push
                      THEN web_server_broadcast_metrics(clients, ws_ret,
                                                        sse_errno)
                      ELSE clients
        /\ served' = [ble |-> notify,
                      ws |-> push /\ clients.ws = "live",
                      sse |-> push /\ clients.sse = "live"]
        /\ UNCHANGED <<now, metrics, smVars, nvsVars, hrVars, cfgVars,
                       isrVars, ble_partial, g_config, stepVars, op>>

\* ------------------------------------------------------------------------
\* web_server.c: the client lists by socket descriptor
\* ------------------------------------------------------------------------
Fds == 1 .. MaxFds

ListSlots == 1 .. MAX_STREAMING_CLIENTS

\* g_ws_fds and g_sse_clients after initialisation
NoFds == [i \in ListSlots |-> -1]

ReapIdle == [pc |-> "idle", fds_to_send |-> NoFds, dead_fds |-> <<>>]

InList(list, fd) == \E i \in ListSlots : list[i] = fd

FirstSlotOf(list, fd) ==
    CHOOSE i \in ListSlots :
        list[i] = fd /\ \A j \in ListSlots : list[j] = fd => i <= j

\* ws_add_client / sse_add_client: the first free entry takes the fd; a full
\* list is left as it is
ws_add_client(list, fd) ==
    IF InList(list, -1)
    THEN [list EXCEPT ![FirstSlotOf(list, -1)] = fd]
    ELSE list

\* ws_remove_client / sse_remove_client, and one round of the loop that
\* removes a dead fd: the first entry holding the value fd is freed
ws_remove_client(list, fd) ==
    IF InList(list, fd)
    THEN [list EXCEPT ![FirstSlotOf(list, fd)] = -1]
    ELSE list

RECURSIVE remove_dead_fds(_, _)
remove_dead_fds(list, dead) ==
    IF dead = <<>> THEN list
    ELSE remove_dead_fds(ws_remove_client(list, Head(dead)), Tail(dead))

\* is_socket_valid: getpeername succeeds on a connected socket
is_socket_valid(fd) == sockets[fd] = "open"

\* the fds of a snapshot that the send loop lists as dead, in list order:
\* failed holds the fds whose socket is not valid or whose send failed for
\* good
RECURSIVE dead_of(_, _, _)
dead_of(snapshot, i, failed) ==
    IF i > MAX_STREAMING_CLIENTS THEN <<>>
    ELSE LET fd == snapshot[i]
             rest == dead_of(snapshot, i + 1, failed)
         IN  IF fd >= 0 /\ fd \in failed THEN <<fd>> \o rest ELSE rest

FdStep ==
    UNCHANGED <<now, metrics, smVars, nvsVars, hrVars, cfgVars, isrVars,
                packet, ble_partial, castVars, http_local, auto_local, op>>

\* ws_handler, HTTP_GET: a client connects on a free fd and completes the
\* WebSocket handshake
ws_handler(fd) ==
    /\ sockets[fd] = "free"
    /\ sockets' = [sockets EXCEPT ![fd] = "open"]
    /\ g_ws_fds' = ws_add_client(g_ws_fds, fd)
    /\ UNCHANGED <<g_sse_clients, reap_local>>
    /\ FdStep

\* sse_handler: a client connects on a free fd and opens the event stream;
\* with the list full the request is completed and the connection closes
sse_handler(fd) ==
    /\ sockets[fd] = "free"
    /\ sockets' = [sockets EXCEPT
                      ![fd] = IF InList(g_sse_clients, -1)
                              THEN "open" ELSE "closing"]
    /\ g_sse_clients' = ws_add_client(g_sse_clients, fd)
    /\ UNCHANGED <<g_ws_fds, reap_local>>
    /\ FdStep

\* the peer goes away; the server has not deleted the session yet
connection_lost(fd) ==
    /\ sockets[fd] = "open"
    /\ sockets' = [sockets EXCEPT ![fd] = "closing"]
    /\ UNCHANGED <<g_ws_fds, g_sse_clients, reap_local>>
    /\ FdStep

\* ws_close_callback, as the server deletes the session; the fd is free
\* for the next connection afterwards
ws_close_callback(fd) ==
    /\ sockets[fd] = "closing"
    /\ sockets' = [sockets EXCEPT ![fd] = "free"]
    /\ g_ws_fds' = ws_remove_client(g_ws_fds, fd)
    /\ g_sse_clients' = ws_remove_client(g_sse_clients, fd)
    /\ UNCHANGED reap_local
    /\ FdStep

\* web_server_broadcast_metrics in the steps its two mutexes divide it into.
\* The snapshot of g_ws_fds, taken under the mutex:
broadcast_snapshot_ws ==
    /\ reap_local.pc = "idle"
    /\ reap_local' = [pc |-> "ws_send", fds_to_send |-> g_ws_fds,
                      dead_fds |-> <<>>]
    /\ UNCHANGED <<sockets, g_ws_fds, g_sse_clients>>
    /\ FdStep

\* the send loop, outside the mutex; a connected socket takes the frame or
\* fails for the moment
broadcast_send_ws(rets) ==
    /\ reap_local.pc = "ws_send"
    /\ reap_local' = [reap_local EXCEPT
                         !.pc = "ws_reap",
                         !.dead_fds =
                             dead_of(reap_local.fds_to_send, 1,
                                     {fd \in Fds :
                                         \/ ~is_socket_valid(fd)
                                         \/ ws_send_is_dead(rets[fd])})]
    /\ UNCHANGED <<sockets, g_ws_fds, g_sse_clients>>
    /\ FdStep

\* the removal of the dead fds, under the mutex
broadcast_reap_ws ==
    /\ reap_local.pc = "ws_reap"
    /\ g_ws_fds' = remove_dead_fds(g_ws_fds, reap_local.dead_fds)
    /\ reap_local' = [reap_local EXCEPT !.pc = "sse_snapshot",
                                        !.dead_fds = <<>>]
    /\ UNCHANGED <<sockets, g_sse_clients>>
    /\ FdStep

broadcast_snapshot_sse ==
    /\ reap_local.pc = "sse_snapshot"
    /\ reap_local' = [pc |-> "sse_send", fds_to_send |-> g_sse_clients,
                      dead_fds |-> <<>>]
    /\ UNCHANGED <<sockets, g_ws_fds, g_sse_clients>>
    /\ FdStep

broadcast_send_sse(errnos) ==
    /\ reap_local.pc = "sse_send"
    /\ LET dead == dead_of(reap_local.fds_to_send, 1,
                           {fd \in Fds :
                               \/ ~is_socket_valid(fd)
                               \/ sse_send_is_dead(errnos[fd])})
       IN  reap_local' = IF dead = <<>> THEN ReapIdle
                         ELSE [reap_local EXCEPT !.pc = "sse_reap",
                                                 !.fds_to_send = NoFds,
                                                 !.dead_fds = dead]
    /\ UNCHANGED <<sockets, g_ws_fds, g_sse_clients>>
    /\ FdStep

\* one sse_remove_client call of the last loop
broadcast_reap_sse ==
    /\ reap_local.pc = "sse_reap"
    /\ g_sse_clients' = ws_remove_client(g_sse_clients,
                                         Head(reap_local.dead_fds))
    /\ reap_local' = IF Tail(reap_local.dead_fds) = <<>> THEN ReapIdle
                     ELSE [reap_local EXCEPT !.dead_fds = Tail(@)]
    /\ UNCHANGED <<sockets, g_ws_fds>>
    /\ FdStep

\* ------------------------------------------------------------------------
\* sensor_manager.c: interrupt handlers and the task that serves them
\* ------------------------------------------------------------------------
flywheel_isr_handler ==
    /\ g_flywheel_pulse_count < MaxPulses
    /\ IF (now - g_last_flywheel_time_us) > FLYWHEEL_DEBOUNCE_US
       THEN /\ g_last_flywheel_time_us' = now
            /\ g_flywheel_pulse_count' = g_flywheel_pulse_count + 1
            /\ sensor_event_group' = sensor_event_group \cup {"FLYWHEEL"}
       ELSE UNCHANGED <<g_last_flywheel_time_us, g_flywheel_pulse_count,
                        sensor_event_group>>
    /\ UNCHANGED <<now, metrics, smVars, nvsVars, hrVars, cfgVars, bleVars,
                   g_last_seat_time_us, op>>

seat_isr_handler ==
    /\ IF (now - g_last_seat_time_us) > SEAT_DEBOUNCE_US
       THEN /\ g_last_seat_time_us' = now
            /\ sensor_event_group' = sensor_event_group \cup {"SEAT"}
       ELSE UNCHANGED <<g_last_seat_time_us, sensor_event_group>>
    /\ UNCHANGED <<now, metrics, smVars, nvsVars, hrVars, cfgVars, bleVars,
                   g_flywheel_pulse_count, g_last_flywheel_time_us, op>>

\* the idle check at the end of every round of the task
sensor_idle_check(m, t) ==
    IF (t - g_last_flywheel_time_us) > IDLE_TIMEOUT_MS * 1000
    THEN IF m.is_active
         THEN [m EXCEPT !.is_active = FALSE, !.current_phase = "IDLE"]
         ELSE m
    ELSE IF g_flywheel_pulse_count > 0
    THEN [m EXCEPT !.is_active = TRUE]
    ELSE m

\* one round of the loop of sensor_processing_task with the kinematics of
\* the pulse: k agrees with the sign of the angular acceleration derived,
\* and fast is the test the seat trigger makes on the angular velocity
sensor_processing_task_kinematics(k, valid, work_dj, fast) ==
    LET bits == sensor_event_group
        m0 == process_flywheel_pulse_kinematics(metrics, g_last_flywheel_time_us)
        m1 == IF "FLYWHEEL" \in bits
              THEN stroke_detector_update(
                       process_pulse_calibration(m0, k, valid),
                       k, now, distance_this_stroke(work_dj))
              ELSE metrics
        m2 == IF "SEAT" \in bits
              THEN stroke_detector_process_seat_trigger(m1, fast, now)
              ELSE m1
        m3 == sensor_idle_check(m2, now)
    IN  /\ "FLYWHEEL" \in bits =>
              /\ k.accel => m0.angular_acceleration_rad_s2 > 0
              /\ k.peak => m0.angular_acceleration_rad_s2 < 0
        /\ "SEAT" \in bits =>
              fast = (m1.angular_velocity_rad_s
                          > RECOVERY_VELOCITY_THRESHOLD * 1000)
        /\ m1.stroke_count <= MaxSensorStrokes
        /\ sensor_event_group' = {}
        /\ metrics' = rowing_physics_update_elapsed_time(m3, now)
        /\ UNCHANGED <<now, smVars, nvsVars, hrVars, cfgVars, bleVars,
                       g_flywheel_pulse_count, g_last_flywheel_time_us,
                       g_last_seat_time_us, op>>

\* one round of the loop of sensor_processing_task: xEventGroupWaitBits
\* returns the bits that are set and clears them, or returns none after
\* its 100 ms timeout
sensor_processing_task_loop(k, valid, work_dj, fast) ==
    LET bits == sensor_event_group
        m1 == IF "FLYWHEEL" \in bits
              THEN stroke_detector_update(
                       rowing_physics_process_flywheel_pulse(metrics, k, valid),
                       k, now, distance_this_stroke(work_dj))
              ELSE metrics
        m2 == IF "SEAT" \in bits
              THEN stroke_detector_process_seat_trigger(m1, fast, now)
              ELSE m1
        m3 == sensor_idle_check(m2, now)
    IN  /\ m1.stroke_count <= MaxSensorStrokes
        /\ sensor_event_group' = {}
        /\ metrics' = rowing_physics_update_elapsed_time(m3, now)
        /\ UNCHANGED <<now, smVars, nvsVars, hrVars, cfgVars, bleVars,
                       g_flywheel_pulse_count, g_last_flywheel_time_us,
                       g_last_seat_time_us, op>>

\* ------------------------------------------------------------------------
\* Time
\* ------------------------------------------------------------------------
FineTicksTaken == ((now - BootTimeUs) % CoarseStepUs) \div FineStepUs
CoarseTicksTaken == (now - BootTimeUs) \div CoarseStepUs

FineTick(max_ticks) ==
    /\ FineTicksTaken < max_ticks
    /\ now' = now + FineStepUs
    /\ UNCHANGED <<metrics, smVars, nvsVars, hrVars, cfgVars, bleVars, isrVars, op>>

CoarseTick(max_ticks) ==
    /\ CoarseTicksTaken < max_ticks
    /\ now' = now + CoarseStepUs
    /\ UNCHANGED <<metrics, smVars, nvsVars, hrVars, cfgVars, bleVars, isrVars, op>>

\* the clock of the sensor pipeline: coarse steps and steps past the idle
\* timeout
SensorTick ==
    /\ ((now - BootTimeUs) % LongStepUs) \div CoarseStepUs < MaxSensorTicks
    /\ now' = now + CoarseStepUs
    /\ UNCHANGED <<metrics, smVars, nvsVars, hrVars, cfgVars, bleVars, isrVars, op>>

LongTick ==
    /\ (now - BootTimeUs) \div LongStepUs < MaxLongTicks
    /\ now' = now + LongStepUs
    /\ UNCHANGED <<metrics, smVars, nvsVars, hrVars, cfgVars, bleVars, isrVars, op>>

\* the clock between two flywheel pulses
PulseTick ==
    /\ \E n \in 1..2 :
          /\ (now - BootTimeUs) \div PulseStepUs + n <= MaxPulseTicks
          /\ now' = now + n * PulseStepUs
    /\ UNCHANGED <<metrics, smVars, nvsVars, hrVars, cfgVars, bleVars, isrVars, op>>

\* ------------------------------------------------------------------------
\* Initial state: after app_main has initialised every subsystem
\* ------------------------------------------------------------------------
\* A record committed by an earlier run of the firmware
StoredRecord(id) ==
    [present |-> TRUE, session_id |-> id, start_timestamp |-> WallEpochMs,
     duration_seconds |-> 1,
     total_distance_meters |-> MIN_SAVE_DISTANCE_M,
     stroke_count |-> MIN_SAVE_STROKES, sample_count |-> 1, synced |-> 0]

\* and the one-row sample blob stored with it
StoredBlob == [present |-> TRUE,
               rows |-> <<[heart_rate |-> 0, distance_dm |-> 0]>>]

\* the newest id <= count stored in slot k (0 if there is none)
NewestIdInSlot(count, k) ==
    LET id == count - ((count - k) % MAX_STORED_SESSIONS)
    IN  IF id >= 1 /\ id <= count THEN id ELSE 0

InitFrom(counts, auto_pauses, boot_metrics) ==
    /\ now = BootTimeUs
    /\ metrics \in boot_metrics
    /\ s_current_session_id = 0
    /\ s_session_count \in counts
    /\ s_stroke_count_at_resume = 0
    /\ s_sample_buffer = <<>>
    /\ s_last_distance = 0
    /\ s_sample_totals = ZeroTotals
    /\ s_session_start_time = 0
    /\ s_session_start_unix_ms = 0
    /\ nvs_count = s_session_count
    /\ nvs_rec = [k \in Slots |->
                    IF NewestIdInSlot(s_session_count, k) = 0
                    THEN NoRecord
                    ELSE StoredRecord(NewestIdInSlot(s_session_count, k))]
    /\ nvs_dat = [k \in Slots |->
                    IF NewestIdInSlot(s_session_count, k) = 0
                    THEN NoBlob ELSE StoredBlob]
    /\ s_recording = FALSE
    /\ s_hr_buffer = <<>>
    /\ s_current_hr = 0
    /\ s_last_update_time_ms = 0
    /\ auto_pause_seconds \in auto_pauses
    /\ calibration_state = "IDLE"
    /\ s_time_synced = FALSE
    /\ g_flywheel_pulse_count = 0
    /\ g_last_flywheel_time_us = 0
    /\ g_last_seat_time_us = 0
    /\ sensor_event_group = {}
    /\ packet = <<>>
    /\ ble_partial = <<>>
    /\ ble_counter = 0
    /\ ws_counter = 0
    /\ broadcast_ticks = 0
    /\ served = [ble |-> FALSE, ws |-> FALSE, sse |-> FALSE]
    /\ g_config = [wifi_enabled |-> TRUE, ble_enabled |-> TRUE]
    /\ clients = NoClients
    /\ http_local = <<>>
    /\ auto_local = <<>>
    /\ sockets = [fd \in Fds |-> "free"]
    /\ g_ws_fds = NoFds
    /\ g_sse_clients = NoFds
    /\ reap_local = ReapIdle
    /\ op = Op("boot", 0, "ESP_OK", "")
    /\ committed = [id \in 0 .. (MaxSessionId + 1) |->
                      IF id >= 1 /\ id <= s_session_count
                      THEN StoredRecord(id) ELSE NoRecord]
    /\ deleted = {}

InitWith(counts, auto_pauses) ==
    InitFrom(counts, auto_pauses, {rowing_physics_init})

\* ------------------------------------------------------------------------
\* Spec: the session clock under the HTTP workout commands.  A fresh device,
\* sub-millisecond and 0.6 s time steps, the 10 Hz update, the HR port.
\* ------------------------------------------------------------------------
Init == InitWith({0}, {0})

Next ==
    \/ FineTick(MaxFineTicks)
    \/ CoarseTick(MaxCoarseTicks)
    \/ metrics_update_task
    \/ workout_start_handler
    \/ workout_stop_handler(TRUE, TRUE, TRUE)
    \/ workout_pause_handler
    \/ workout_resume_handler
    \/ api_reset_handler

Spec == Init /\ [][Next]_vars

\* ------------------------------------------------------------------------
\* SpecAuto: the session clock with the flywheel and the auto-activity
\* check (auto-start, auto-resume, auto-pause after auto_pause_seconds).
\* ------------------------------------------------------------------------
InitAuto == InitWith({0}, AutoPauseChoices \ {0})

NextAuto ==
    \/ CoarseTick(MaxAutoTicks)
    \/ metrics_update_task
    \/ \E k \in Kinematics, d \in StrokeDistances \ {0} :
           sensor_processing_task(k, d, MaxStrokes)
    \/ session_manager_check_activity
    \/ workout_start_handler
    \/ workout_stop_handler(TRUE, TRUE, TRUE)
    \/ workout_pause_handler
    \/ workout_resume_handler

SpecAuto == InitAuto /\ [][NextAuto]_vars

\* ------------------------------------------------------------------------
\* SpecStore: committing a session.  NVS as earlier runs left it, 0.6 s
\* time steps, enough strokes to pass the save threshold, the sampler and
\* storage failures.
\* ------------------------------------------------------------------------
\* the pulses of a rower who keeps rowing: drive start and drive end
StoreKinematics == {k \in Kinematics : k.drive \/ (k.peak /\ ~k.slow)}

InitStore == InitWith(InitCounts, {0})

NextStore ==
    \/ CoarseTick(MaxStoreTicks)
    \/ \E k \in StoreKinematics, d \in StrokeDistances :
           sensor_processing_task(k, d, MaxStoreStrokes)
    \/ workout_start_handler
    \/ \E open_ok, rec_ok, dat_ok \in BOOLEAN :
           workout_stop_handler(open_ok, rec_ok, dat_ok)
    \/ \E hr \in SampleHeartRates, rate \in SampleStrokeRates :
           session_manager_record_sample(hr, rate, MaxSamples)
    \/ sntp_sync_callback

SpecStore == InitStore /\ [][NextStore]_vars

\* ------------------------------------------------------------------------
\* SpecLog: the session log.  As SpecStore, with DELETE /api/sessions/{id}
\* in place of the sampler.
\* ------------------------------------------------------------------------
NextLog ==
    \/ CoarseTick(MaxStoreTicks)
    \/ \E k \in StoreKinematics, d \in StrokeDistances :
           sensor_processing_task(k, d, MaxStoreStrokes)
    \/ workout_start_handler
    \/ \E open_ok, rec_ok, dat_ok \in BOOLEAN :
           workout_stop_handler(open_ok, rec_ok, dat_ok)
    \/ \E id \in DeleteIds, open_ok \in BOOLEAN :
           session_manager_delete_session(id, open_ok)

SpecLog == InitStore /\ [][NextLog]_vars

\* ------------------------------------------------------------------------
\* SpecRing: the sampler of one long session.  Sessions are started and
\* stopped and a sample is recorded over and over, up to the end of the
\* sample buffer and beyond; the flywheel stands still.
\* ------------------------------------------------------------------------
RecordSample ==
    \E hr \in SampleHeartRates, rate \in SampleStrokeRates :
        session_manager_record_sample(hr, rate, SAMPLE_BUFFER_SIZE + 1)

NextRing ==
    \/ workout_start_handler
    \/ workout_stop_handler(TRUE, TRUE, TRUE)
    \/ RecordSample

SpecRing == InitStore /\ [][NextRing]_vars

\* ------------------------------------------------------------------------
\* SpecSensor: the sensor pipeline.  Flywheel and seat edges reach the
\* interrupt handlers and the task serves the event group.
\* ------------------------------------------------------------------------
NextSensor ==
    \/ SensorTick
    \/ LongTick
    \/ flywheel_isr_handler
    \/ seat_isr_handler
    \/ \E k \in Kinematics, valid \in BOOLEAN, work_dj \in DriveWorks,
          fast \in BOOLEAN :
           sensor_processing_task_loop(k, valid, work_dj, fast)

SpecSensor == Init /\ [][NextSensor]_vars

\* ------------------------------------------------------------------------
\* SpecActivity: the auto-activity check in every configuration.  As
\* SpecAuto, with auto-pause disabled or enabled, the inertia calibration
\* and the metrics reset.
\* ------------------------------------------------------------------------
InitActivity == InitWith({0}, AutoPauseChoices)

NextActivity ==
    \/ CoarseTick(MaxAutoTicks)
    \/ \E k \in StoreKinematics, d \in StrokeDistances \ {0} :
           sensor_processing_task(k, d, MaxStrokes)
    \/ session_manager_check_activity
    \/ workout_start_handler
    \/ api_reset_handler
    \/ api_calibrate_inertia_start_handler
    \/ api_calibrate_inertia_cancel_handler
    \/ \E ev \in CalibrationEvents : web_server_update_inertia_calibration(ev)

SpecActivity == InitActivity /\ [][NextActivity]_vars

\* ------------------------------------------------------------------------
\* SpecCalibration: the drag calibration.  Pulses that may give a
\* calibration sample, and the commands that touch the metrics.  The clock
\* stands still: no step of the calibration reads it.
\* ------------------------------------------------------------------------
NextCalibration ==
    \/ \E k \in Kinematics, valid \in BOOLEAN :
           sensor_processing_task_calibrate(k, valid, 2)
    \/ reset_calibration
    \/ workout_start_handler
    \/ workout_stop_handler(TRUE, TRUE, TRUE)
    \/ workout_pause_handler
    \/ workout_resume_handler
    \/ api_reset_handler

SpecCalibration == Init /\ [][NextCalibration]_vars

\* ------------------------------------------------------------------------
\* SpecBroadcast: the BLE notification next to the writers of the metrics.
\* ------------------------------------------------------------------------
NextBroadcast ==
    \/ CoarseTick(MaxCoarseTicks)
    \/ \E k \in Kinematics, d \in StrokeDistances :
           sensor_processing_task(k, d, MaxStrokes)
    \/ metrics_update_task
    \/ workout_start_handler
    \/ api_reset_handler
    \/ \E dm \in DerivedMetrics : ble_ftms_notify_begin(dm)
    \/ \E dm \in DerivedMetrics : ble_ftms_notify_end(dm)

SpecBroadcast == Init /\ [][NextBroadcast]_vars

\* ------------------------------------------------------------------------
\* SpecHeart: the heart-rate ingest next to the session.  Values arrive by
\* POST /hr and from the BLE monitor while sessions are started by command
\* or by the auto-activity check, paused and stopped.
\* ------------------------------------------------------------------------
NextHeart ==
    \/ CoarseTick(MaxCoarseTicks)
    \/ \E hr \in PostedRates : hr_post_handler(hr)
    \/ \E data \in HrMeasurements : ble_hr_notify_rx(data)
    \/ \E bpm \in HrInputs : hr_receiver_update(bpm)
    \/ \E k \in StoreKinematics, d \in StrokeDistances \ {0} :
           sensor_processing_task(k, d, MaxStrokes)
    \/ session_manager_check_activity
    \/ workout_start_handler
    \/ workout_stop_handler(TRUE, TRUE, TRUE)
    \/ workout_pause_handler

SpecHeart == InitAuto /\ [][NextHeart]_vars

\* ------------------------------------------------------------------------
\* SpecReset: the metrics reset and the start of a session.  The machine
\* boots with the configured moment of inertia, with or without a drag
\* calibration completed before; it is rowed, sampled, paused, stopped,
\* reset and started again.
\* ------------------------------------------------------------------------
\* the metrics once CALIBRATION_SAMPLES valid samples have been taken
CalibratedMetrics(m) ==
    [m EXCEPT !.drag_coefficient = measured_k,
              !.drag_factor = measured_k * 1000000,
              !.drag_calibration_samples = CALIBRATION_SAMPLES,
              !.calibration_complete = TRUE]

InitReset ==
    InitFrom({0}, {0},
             {rowing_physics_init_with(moi) : moi \in ConfiguredInertias}
               \cup {CalibratedMetrics(rowing_physics_init_with(moi)) :
                        moi \in ConfiguredInertias})

NextReset ==
    \/ CoarseTick(MaxCoarseTicks)
    \/ \E k \in StoreKinematics, d \in StrokeDistances \ {0},
          p \in PulsePowers : sensor_processing_task_power(k, d, p)
    \/ \E hr \in SampleHeartRates, rate \in SampleStrokeRates :
           session_manager_record_sample(hr, rate, MaxSamples)
    \/ workout_start_handler
    \/ workout_stop_handler(TRUE, TRUE, TRUE)
    \/ workout_pause_handler
    \/ api_reset_handler

SpecReset == InitReset /\ [][NextReset]_vars

\* ------------------------------------------------------------------------
\* SpecResume: the start command on a session in progress.  Strokes are
\* rowed, samples and heart rates recorded, and the session is paused,
\* reset and started again.
\* ------------------------------------------------------------------------
NextResume ==
    \/ CoarseTick(MaxCoarseTicks)
    \/ \E k \in StoreKinematics, d \in StrokeDistances \ {0} :
           sensor_processing_task(k, d, MaxStrokes)
    \/ \E hr \in SampleHeartRates, rate \in SampleStrokeRates :
           session_manager_record_sample(hr, rate, MaxSamples)
    \/ \E bpm \in SampleHeartRates : hr_receiver_update(bpm)
    \/ workout_start_handler
    \/ workout_pause_handler
    \/ api_reset_handler

SpecResume == Init /\ [][NextResume]_vars

\* ------------------------------------------------------------------------
\* SpecStroke: the sensor pipeline next to the commands that write g_metrics
\* without a session: pause, resume and the metrics reset.  The clock takes
\* steps past the idle timeout; no pulse yields a drag sample and every
\* drive does the same work.
\* ------------------------------------------------------------------------
StrokeTick ==
    /\ (now - BootTimeUs) \div LongStepUs < MaxStrokeTicks
    /\ now' = now + LongStepUs
    /\ UNCHANGED <<metrics, smVars, nvsVars, hrVars, cfgVars, bleVars, isrVars, op>>

NextStroke ==
    \/ StrokeTick
    \/ flywheel_isr_handler
    \/ seat_isr_handler
    \/ \E k \in Kinematics, work_dj \in StrokeWorks, fast \in BOOLEAN :
           sensor_processing_task_loop(k, FALSE, work_dj, fast)
    \/ workout_pause_handler
    \/ workout_resume_handler
    \/ api_reset_handler

SpecStroke == Init /\ [][NextStroke]_vars

\* ------------------------------------------------------------------------
\* SpecPulse: the kinematics of the flywheel.  Pulses one or two clock
\* steps apart reach the interrupt handler and the task derives angular
\* velocity and acceleration from them.
\* ------------------------------------------------------------------------
NextPulse ==
    \/ PulseTick
    \/ flywheel_isr_handler
    \/ \E k \in Kinematics, work_dj \in StrokeWorks :
           sensor_processing_task_kinematics(k, FALSE, work_dj, TRUE)
    \/ api_reset_handler

SpecPulse == Init /\ [][NextPulse]_vars

\* ------------------------------------------------------------------------
\* SpecRate: the stroke rate.  Strokes with the timing of their phases, and
\* the metrics reset.
\* ------------------------------------------------------------------------
NextRate ==
    \/ CoarseTick(MaxAutoTicks)
    \/ \E k \in Kinematics, d \in StrokeDistances \ {0} :
           sensor_processing_task_timed(k, d, MaxDistanceStrokes)
    \/ api_reset_handler

SpecRate == Init /\ [][NextRate]_vars

\* ------------------------------------------------------------------------
\* SpecIdle: the idle timeout.  Pulses a few clock steps apart, seat
\* triggers, and steps of the clock past the idle timeout.
\* ------------------------------------------------------------------------
NextIdle ==
    \/ PulseTick
    \/ StrokeTick
    \/ flywheel_isr_handler
    \/ seat_isr_handler
    \/ \E k \in Kinematics, work_dj \in StrokeWorks, fast \in BOOLEAN :
           sensor_processing_task_kinematics(k, FALSE, work_dj, fast)

SpecIdle == Init /\ [][NextIdle]_vars

\* ------------------------------------------------------------------------
\* SpecRace: the resume handler next to the auto-resume.  g_metrics has no
\* lock: the web task and the task of the auto-activity check may each run
\* between two steps of the other.  The web task serves one request at a
\* time.
\* ------------------------------------------------------------------------
NextRace ==
    \/ CoarseTick(MaxAutoTicks)
    \/ metrics_update_task
    \/ \E k \in StoreKinematics, d \in StrokeDistances \ {0} :
           sensor_processing_task(k, d, MaxStrokes)
    \/ (http_local = <<>> /\ workout_start_handler)
    \/ (http_local = <<>> /\ workout_pause_handler)
    \/ workout_resume_handler_enter
    \/ workout_resume_handler_leave
    \/ check_activity_resume_enter
    \/ check_activity_resume_leave

SpecRace == InitAuto /\ [][NextRace]_vars

\* ------------------------------------------------------------------------
\* SpecReap: streaming clients that come and go on a few socket descriptors
\* while the broadcast task pushes metrics
\* ------------------------------------------------------------------------
\* what a send to a connected socket gives
LiveWsSendResults == {"ESP_OK", "ESP_FAIL"}
LiveSseSendErrnos == {"OK", "EAGAIN"}

NextReap ==
    \/ \E fd \in Fds : ws_handler(fd)
    \/ \E fd \in Fds : sse_handler(fd)
    \/ \E fd \in Fds : connection_lost(fd)
    \/ \E fd \in Fds : ws_close_callback(fd)
    \/ broadcast_snapshot_ws
    \/ \E rets \in [Fds -> LiveWsSendResults] : broadcast_send_ws(rets)
    \/ broadcast_reap_ws
    \/ broadcast_snapshot_sse
    \/ \E errnos \in [Fds -> LiveSseSendErrnos] : broadcast_send_sse(errnos)
    \/ broadcast_reap_sse

SpecReap == Init /\ [][NextReap]_vars

\* ------------------------------------------------------------------------
\* SpecFanout: the broadcast task and its clients.  The flywheel stands
\* still; clients come and go between the rounds of the task.
\* ------------------------------------------------------------------------
NextFanout ==
    \/ \E wifi_en, ble_en \in BOOLEAN : config_manager_load(wifi_en, ble_en)
    \/ \E kind \in ClientKinds : client_connect(kind)
    \/ \E kind \in ClientKinds, clean \in BOOLEAN :
           client_disconnect(kind, clean)
    \/ \E dm \in DerivedMetrics, ws_ret \in WsSendResults,
          sse_errno \in SseSendErrnos :
           broadcast_task(dm, ws_ret, sse_errno)

SpecFanout == Init /\ [][NextFanout]_vars

\* ------------------------------------------------------------------------
\* SpecDistance: the distance of a workout.  Strokes and seat triggers seen
\* from the session, with every HTTP command that touches the metrics.
\* ------------------------------------------------------------------------
NextDistance ==
    \/ CoarseTick(MaxCoarseTicks)
    \/ \E k \in Kinematics, d \in StrokeDistances :
           sensor_processing_task(k, d, MaxDistanceStrokes)
    \/ \E fast \in BOOLEAN : sensor_processing_task_seat(fast)
    \/ metrics_update_task
    \/ workout_start_handler
    \/ workout_stop_handler(TRUE, TRUE, TRUE)
    \/ workout_pause_handler
    \/ workout_resume_handler
    \/ api_reset_handler

SpecDistance == Init /\ [][NextDistance]_vars

\* ------------------------------------------------------------------------
\* Properties of the session clock
\* ------------------------------------------------------------------------
\* the steps a session goes through between its start and its stop or reset
SessionStep ==
    \/ metrics_update_task
    \/ \E k \in Kinematics, d \in StrokeDistances :
           sensor_processing_task(k, d, MaxStrokes)
    \/ workout_pause_handler
    \/ workout_resume_handler
    \/ session_manager_check_activity
    \/ (workout_start_handler /\ metrics.is_paused)

\* C1: while a session is active, no pulse-processing, 10 Hz update, pause,
\* resume (HTTP or auto) or auto-pause step lowers the published
\* elapsed_time_ms.
C1_ElapsedNeverDecreases ==
    [][(s_current_session_id > 0 /\ SessionStep)
         => metrics'.elapsed_time_ms >= metrics.elapsed_time_ms]_vars

\* an auto-started session that still shows the elapsed time of the session
\* discarded before it
C1_StaleElapsedInNewSession ==
    /\ s_current_session_id > 0
    /\ ~metrics.is_paused
    /\ metrics.session_start_time_us = now
    /\ metrics.elapsed_time_ms > 0

\* C2: as long as is_paused stays true, no step (in particular no run of
\* rowing_physics_update_elapsed_time by the sensor task or the metrics task)
\* changes elapsed_time_ms.
C2_PausedElapsedFrozen ==
    [][(metrics.is_paused /\ metrics'.is_paused)
         => metrics'.elapsed_time_ms = metrics.elapsed_time_ms]_vars

\* a paused session whose frozen elapsed time is behind what an update of a
\* running session would publish now
C2_PausedBehindClock ==
    /\ s_current_session_id > 0
    /\ metrics.is_paused
    /\ metrics.pause_start_time_us > 0
    /\ now > metrics.pause_start_time_us
    /\ metrics.elapsed_time_ms > 0
    /\ rowing_physics_update_elapsed_time_nopause(metrics, now).elapsed_time_ms
           > metrics.elapsed_time_ms

\* C3: POST /workout/pause on a Running session only sets is_paused and
\* pause_start_time_us = t1; the following POST /workout/resume or
\* POST /workout/start at t2 makes the session Running again with the same
\* session id, stroke_count, distance and sample ring, with
\* total_paused_time_ms increased by (t2 - t1) / 1000 and
\* last_resume_time_us = t2.
C3_PauseStep ==
    workout_pause_handler /\ s_current_session_id > 0 /\ ~metrics.is_paused

C3_ResumeStep ==
    /\ workout_resume_handler \/ workout_start_handler
    /\ s_current_session_id > 0
    /\ metrics.is_paused
    /\ metrics.pause_start_time_us > 0

C3_PauseResumeRestores ==
    [][/\ C3_PauseStep =>
            /\ metrics' = [metrics EXCEPT !.is_paused = TRUE,
                                          !.pause_start_time_us = now]
            /\ UNCHANGED smVars
       /\ C3_ResumeStep =>
            /\ ~metrics'.is_paused
            /\ metrics'.total_paused_time_ms =
                   metrics.total_paused_time_ms
                       + ((now - metrics.pause_start_time_us) \div 1000)
            /\ metrics'.last_resume_time_us = now
            /\ metrics'.stroke_count = metrics.stroke_count
            /\ metrics'.total_distance_meters = metrics.total_distance_meters
            /\ metrics'.elapsed_time_ms = metrics.elapsed_time_ms
            /\ UNCHANGED smVars]_vars

\* a session just resumed after a pause of at least one millisecond
C3_ResumedAfterPause ==
    /\ op.name \in {"resume", "start"}
    /\ op.note = "resumed"
    /\ s_current_session_id > 0
    /\ ~metrics.is_paused
    /\ metrics.last_resume_time_us = now
    /\ metrics.total_paused_time_ms > 0

\* C4: POST /workout/start on a Running session changes neither the session
\* id, nor stroke_count, distance, elapsed time and total paused time, nor
\* the sample ring, nor the HR trace.
C4_StartWhileRunningNoOp ==
    [][(workout_start_handler /\ s_current_session_id > 0 /\ ~metrics.is_paused)
         => /\ UNCHANGED <<s_current_session_id, s_sample_buffer, s_hr_buffer>>
            /\ metrics'.stroke_count = metrics.stroke_count
            /\ metrics'.total_distance_meters = metrics.total_distance_meters
            /\ metrics'.elapsed_time_ms = metrics.elapsed_time_ms
            /\ metrics'.total_paused_time_ms = metrics.total_paused_time_ms]_vars

\* C5: POST /workout/pause on a Paused session changes nothing: is_paused,
\* pause_start_time_us, total_paused_time_ms and elapsed_time_ms keep their
\* values.
C5_PauseWhilePausedNoOp ==
    [][(workout_pause_handler /\ metrics.is_paused)
         => (metrics' = metrics /\ UNCHANGED smVars)]_vars

\* a second pause command answered some time after the first one
C5_SecondPauseLater ==
    /\ op.name = "pause"
    /\ op.note = "already_paused"
    /\ s_current_session_id > 0
    /\ metrics.is_paused
    /\ metrics.pause_start_time_us > 0
    /\ now > metrics.pause_start_time_us

\* ------------------------------------------------------------------------
\* Properties of the session log
\* ------------------------------------------------------------------------
ActiveStop(open_ok, rec_ok, dat_ok) ==
    workout_stop_handler(open_ok, rec_ok, dat_ok) /\ s_current_session_id > 0

MeetsSaveThreshold ==
    metrics.stroke_count >= 5 /\ metrics.total_distance_meters >= 10

\* C6 as stated: a stop on an active session writes a record if and only if
\* stroke_count >= 5 and distance >= 10 m; otherwise no key is written and
\* the session count is unchanged.
C6_StopCommitsIffThreshold ==
    [][\A open_ok, rec_ok, dat_ok \in BOOLEAN :
         ActiveStop(open_ok, rec_ok, dat_ok)
           => /\ (nvs_rec' # nvs_rec) <=> MeetsSaveThreshold
              /\ ~MeetsSaveThreshold =>
                   UNCHANGED <<nvs_rec, nvs_dat, nvs_count, s_session_count>>]_vars

\* C6: a stop on an active session writes a record if and only if
\* stroke_count >= 5, distance >= 10 m and both nvs_open and the record
\* write succeed; otherwise no record key and no sample key is written and
\* the session count is unchanged.
C6_StopCommitsIffThresholdAndStorage ==
    [][\A open_ok, rec_ok, dat_ok \in BOOLEAN :
         ActiveStop(open_ok, rec_ok, dat_ok)
           => /\ (nvs_rec' # nvs_rec)
                    <=> (MeetsSaveThreshold /\ open_ok /\ rec_ok)
              /\ (nvs_rec' = nvs_rec) =>
                   UNCHANGED <<nvs_dat, nvs_count, s_session_count>>]_vars

\* a session that has just been committed
C6_SessionCommitted ==
    /\ op.name = "stop"
    /\ op.note = "saved"
    /\ nvs_rec[SlotOf(op.id)].session_id = op.id
    /\ nvs_count = op.id

\* C7: after a stop on an active session, whatever its outcome, the current
\* session id is 0 and session_start_time_us is 0.
C7_StopAlwaysLeavesNone ==
    [][\A open_ok, rec_ok, dat_ok \in BOOLEAN :
         ActiveStop(open_ok, rec_ok, dat_ok)
           => /\ s_current_session_id' = 0
              /\ metrics'.session_start_time_us = 0]_vars

\* C8: when a session with stroke_count >= 5 and distance >= 10 m is stopped
\* and the write succeeds, session_manager_get_session(id) returns a record
\* with that session_id, the stroke_count of the metrics, duration_seconds =
\* elapsed_time_ms / 1000 and sample_count = the number of rows in the ring.
C8_CommittedRecordMatchesSession ==
    [][\A dat_ok \in BOOLEAN :
         (ActiveStop(TRUE, TRUE, dat_ok) /\ MeetsSaveThreshold)
           => LET got == session_manager_get_session(nvs_rec',
                                                     s_current_session_id)
              IN  /\ got.ret = "ESP_OK"
                  /\ got.rec.session_id = s_current_session_id
                  /\ got.rec.stroke_count = metrics.stroke_count
                  /\ got.rec.duration_seconds = metrics.elapsed_time_ms \div 1000
                  /\ got.rec.sample_count = Len(s_sample_buffer)]_vars

\* a committed session that lasted over a second and has a sample row
C8_CommittedWithDurationAndSample ==
    /\ op.name = "stop"
    /\ op.note = "saved"
    /\ session_manager_get_session(nvs_rec, op.id).ret = "ESP_OK"
    /\ nvs_rec[SlotOf(op.id)].duration_seconds >= 1
    /\ nvs_rec[SlotOf(op.id)].sample_count = 1

\* C9: a successful delete of id erases keys s{id % 20} and d{id % 20} and
\* leaves every other slot as it was; every later read of a deleted id fails;
\* a delete of id 0, of an id above the session count or of an id whose slot
\* holds another id returns ESP_ERR_NOT_FOUND and changes nothing.
C9_DeleteStepOk ==
    \A id \in DeleteIds, open_ok \in BOOLEAN :
        session_manager_delete_session(id, open_ok) =>
            /\ op'.ret = "ESP_OK" =>
                 /\ ~nvs_rec'[SlotOf(id)].present
                 /\ ~nvs_dat'[SlotOf(id)].present
                 /\ \A k \in Slots \ {SlotOf(id)} :
                        nvs_rec'[k] = nvs_rec[k] /\ nvs_dat'[k] = nvs_dat[k]
            /\ (id = 0 \/ id > s_session_count
                  \/ nvs_rec[SlotOf(id)].session_id # id) =>
                 /\ op'.ret = "ESP_ERR_NOT_FOUND"
                 /\ UNCHANGED <<nvs_rec, nvs_dat, nvs_count>>

C10_GetSessionOnlyOwnRecord ==
    \A id \in 1 .. (MaxSessionId + 1) :
        LET got == session_manager_get_session(nvs_rec, id)
        IN  /\ got.ret = "ESP_OK" =>
                 (got.rec.session_id = id /\ got.rec = committed[id])
            /\ (\E later \in (id + 1) .. (MaxSessionId + 1) :
                    /\ SlotOf(later) = SlotOf(id)
                    /\ committed[later].present)
                 => got.ret # "ESP_OK"

\* session 21 has been committed over the slot of session 1
C10_SlotOverwritten ==
    /\ committed[1].present
    /\ committed[MAX_STORED_SESSIONS + 1].present
    /\ nvs_rec[1].session_id = MAX_STORED_SESSIONS + 1
    /\ session_manager_get_session(nvs_rec, 1).ret = "ESP_ERR_NOT_FOUND"

\* C11: a record committed for a session that was started while the wall
\* clock was unsynced (wifi_manager_get_unix_time_ms returned 0) has
\* start_timestamp = 0.
C11_UnsyncedStartPersistsZero ==
    [][\A dat_ok \in BOOLEAN :
         (ActiveStop(TRUE, TRUE, dat_ok) /\ MeetsSaveThreshold
            /\ s_session_start_unix_ms = 0)
           => nvs_rec'[SlotOf(s_current_session_id)].start_timestamp = 0]_vars

\* a record committed with an uptime-derived start timestamp
C11_UptimeTimestampStored ==
    /\ op.name = "stop"
    /\ op.note = "saved"
    /\ s_session_start_unix_ms = 0
    /\ nvs_rec[SlotOf(op.id)].start_timestamp = s_session_start_time \div 1000
    /\ nvs_rec[SlotOf(op.id)].start_timestamp > 0

\* the largest id ever committed (0 if none)
MaxCommittedId ==
    LET ids == {j \in DOMAIN committed : committed[j].present}
    IN  IF ids = {} THEN 0 ELSE CHOOSE j \in ids : \A i \in ids : i <= j

\* C12: the session count is the largest committed id; every start from None
\* assigns that id + 1; every commit writes an id that no committed record
\* carries and that is greater than every id committed before.
C12_SessionIdsMonotone ==
    /\ [](s_session_count = MaxCommittedId)
    /\ [][(workout_start_handler /\ s_current_session_id = 0)
            => s_current_session_id' = MaxCommittedId + 1]_vars
    /\ [][\A open_ok, rec_ok, dat_ok \in BOOLEAN :
            (ActiveStop(open_ok, rec_ok, dat_ok) /\ nvs_rec' # nvs_rec)
              => /\ ~committed[s_current_session_id].present
                 /\ s_current_session_id > MaxCommittedId
                 /\ committed'[s_current_session_id].session_id
                        = s_current_session_id]_vars

\* session 22 started after session 21 was committed and session 1 deleted
C12_NextIdAfterCommitAndDelete ==
    /\ s_current_session_id = MAX_STORED_SESSIONS + 2
    /\ committed[MAX_STORED_SESSIONS + 1].present
    /\ 1 \in deleted

\* ------------------------------------------------------------------------
\* Properties of the distance and of the stroke detector
\* ------------------------------------------------------------------------
\* a step that executes rowing_physics_reset: POST /api/reset (the WebSocket
\* reset command runs the same code) or the start of a new session
MetricsResetStep ==
    \/ api_reset_handler
    \/ (workout_start_handler /\ ~(s_current_session_id > 0 /\ metrics.is_paused))

\* C13: total_distance_meters never decreases under a pulse, seat trigger,
\* metric update, pause, resume or stop step, and it returns to 0 exactly
\* when a metrics reset is executed.
C13_DistanceMonotoneUntilReset ==
    /\ [][MetricsResetStep
           \/ metrics'.total_distance_meters >= metrics.total_distance_meters]_vars
    /\ [][MetricsResetStep => metrics'.total_distance_meters = 0]_vars
    /\ [][(metrics.total_distance_meters > 0 /\ metrics'.total_distance_meters = 0)
           => MetricsResetStep]_vars

\* a workout that was rowed, paused, resumed and stopped still shows its
\* distance
C13_DistanceKeptAfterStop ==
    /\ op.name = "stop"
    /\ metrics.total_distance_meters > 0
    /\ metrics.total_paused_time_ms > 0
    /\ s_current_session_id = 0

\* a completed drive: the pulse that ends a drive phase that lasted at least
\* the minimum stroke duration
CompletedDrive(k) ==
    /\ "FLYWHEEL" \in sensor_event_group
    /\ metrics.current_phase = "DRIVE"
    /\ k.peak
    /\ (now - metrics.last_stroke_start_time_us) \div 1000
           >= MINIMUM_STROKE_DURATION_MS

\* C14: every completed drive adds a per-stroke distance in [2, 20] m to the
\* total distance, whatever the accumulated drive work.
C14_StrokeDistanceInRange ==
    [][\A k \in Kinematics, valid \in BOOLEAN, work_dj \in DriveWorks,
          fast \in BOOLEAN :
          (sensor_processing_task_loop(k, valid, work_dj, fast) /\ CompletedDrive(k))
            => (metrics'.total_distance_meters - metrics.total_distance_meters)
                   \in 2..20]_vars

\* a counted stroke that added no distance
C14_StrokeWithoutDistance ==
    metrics.stroke_count = 1 /\ metrics.total_distance_meters = 0

\* C15: once 50 calibration samples have been accepted calibration_complete
\* is true, and no pulse, stroke, pause, resume, stop or metrics reset makes
\* it false again; only rowing_physics_reset_calibration does.
C15_CalibrationCompleteIsStable ==
    /\ [](metrics.drag_calibration_samples >= CALIBRATION_SAMPLES
             => metrics.calibration_complete)
    /\ [][(metrics.calibration_complete /\ ~reset_calibration)
             => metrics'.calibration_complete]_vars

\* a calibrated machine whose metrics have been reset
C15_CompleteSurvivesMetricsReset ==
    /\ metrics.calibration_complete
    /\ metrics.drag_calibration_samples = 0
    /\ op.name = "reset"

\* C16: a round of the sensor task never takes the phase from Drive to Idle
\* or from Idle to Recovery.
C16_PhaseTransitionsLegal ==
    [][\A k \in Kinematics, valid \in BOOLEAN, work_dj \in DriveWorks,
          fast \in BOOLEAN :
          sensor_processing_task_loop(k, valid, work_dj, fast)
            => /\ ~(metrics.current_phase = "DRIVE"
                     /\ metrics'.current_phase = "IDLE")
               /\ ~(metrics.current_phase = "IDLE"
                     /\ metrics'.current_phase = "RECOVERY")]_vars

\* the idle timeout has fired on a machine that had been active
C16_IdleAfterTimeout ==
    /\ metrics.current_phase = "IDLE"
    /\ ~metrics.is_active
    /\ g_flywheel_pulse_count > 0
    /\ metrics.flywheel_pulse_count > 0
    /\ (now - g_last_flywheel_time_us) > IDLE_TIMEOUT_MS * 1000

\* C19: when the task has drained the event group it has processed as many
\* flywheel pulses as the interrupt handler accepted.
C19_EveryAcceptedPulseProcessed ==
    ("FLYWHEEL" \notin sensor_event_group)
        => metrics.flywheel_pulse_count = g_flywheel_pulse_count

\* two accepted edges served by one round of the task
C19_CoalescedPulses ==
    /\ sensor_event_group = {}
    /\ g_flywheel_pulse_count = 2
    /\ metrics.flywheel_pulse_count = 1

\* ------------------------------------------------------------------------
\* Properties of the BLE notification
\* ------------------------------------------------------------------------
\* C17: every Rower Data notification is 23 bytes long and begins with the
\* little-endian flags word TotalDistance | InstPace | AvgPace | InstPower |
\* AvgPower | ExpendedEnergy | ElapsedTime, whatever the metrics are.
C17_PacketLengthAndFlags ==
    packet # <<>>
      => /\ Len(packet) = 23
         /\ \A i \in 1..Len(packet) : packet[i] \in 0..255
         /\ packet[1] + 256 * packet[2]
              = ROWER_TOTAL_DISTANCE_FLAG + ROWER_INST_PACE_FLAG
                + ROWER_AVG_PACE_FLAG + ROWER_INST_POWER_FLAG
                + ROWER_AVG_POWER_FLAG + ROWER_EXPENDED_ENERGY_FLAG
                + ROWER_ELAPSED_TIME_FLAG

\* a notification that carries a stroke, a distance, an elapsed time and
\* out-of-range derived values
C17_PacketWithData ==
    /\ packet # <<>>
    /\ packet[4] = 1
    /\ packet[6] = 2
    /\ packet[22] = 1
    /\ packet[3] = 48
    /\ packet[13] = 255

\* C18: the fields of a notification come from one state of the metrics
\* struct: as a stroke is counted and its distance added in one step of the
\* sensor task, and a reset clears both, a packet that shows no stroke shows
\* no distance.
C18_SnapshotCoherent ==
    packet # <<>>
      => ((packet[4] = 0 /\ packet[5] = 0)
            => (packet[6] = 0 /\ packet[7] = 0 /\ packet[8] = 0))

\* the relation holds in every state of the struct itself
C18_StructCoherent ==
    metrics.stroke_count = 0 => metrics.total_distance_meters = 0

\* a notification with stroke count 0 and distance 2 m
C18_TornPacket ==
    /\ packet # <<>>
    /\ packet[4] = 0 /\ packet[5] = 0
    /\ packet[6] = 2

\* ------------------------------------------------------------------------
\* Properties of the auto-pause
\* ------------------------------------------------------------------------
\* no drive phase has started for more than auto_pause_seconds
NoDriveForTimeout ==
    (now - metrics.last_stroke_start_time_us) > auto_pause_seconds * 1000000

\* C20: a check of a running session with auto-pause enabled, no inertia
\* calibration and no drive start for more than auto_pause_seconds pauses
\* it with pause_start_time_us = now, whether or not strokes were completed
\* since the last start or resume; while the pause lasts, the updates of the
\* metrics task and the sensor task and further checks leave elapsed_time_ms
\* alone.
C20_AutoPauseOnInactivity ==
    /\ []((s_current_session_id > 0 /\ ~metrics.is_paused
            /\ auto_pause_seconds > 0 /\ ~web_server_is_calibrating_inertia
            /\ NoDriveForTimeout)
           => ENABLED (session_manager_check_activity
                       /\ metrics'.is_paused
                       /\ metrics'.pause_start_time_us = now))
    /\ [][(s_current_session_id > 0 /\ metrics.is_paused /\ metrics'.is_paused
            /\ (\/ metrics_update_task
                \/ session_manager_check_activity
                \/ \E k \in Kinematics, d \in StrokeDistances :
                       sensor_processing_task(k, d, MaxStrokes)))
           => metrics'.elapsed_time_ms = metrics.elapsed_time_ms]_vars

\* a session paused by the check (the last HTTP command was not a pause)
\* more than auto_pause_seconds after its one stroke began
C20_AutoPausedAfterStroke ==
    /\ s_current_session_id > 0
    /\ op.name \in {"start", "resume"}
    /\ metrics.is_paused
    /\ metrics.pause_start_time_us
         > metrics.last_stroke_start_time_us + auto_pause_seconds * 1000000
    /\ metrics.last_stroke_start_time_us > 0
    /\ metrics.stroke_count > s_stroke_count_at_resume

\* and one paused by the check without a stroke since its start
C20_AutoPausedWithoutStroke ==
    /\ s_current_session_id > 0
    /\ op.name \in {"start", "resume"}
    /\ metrics.is_paused
    /\ metrics.pause_start_time_us > 0
    /\ metrics.stroke_count = s_stroke_count_at_resume

\* ------------------------------------------------------------------------
\* Properties of the auto-activity check
\* ------------------------------------------------------------------------
\* a drive phase started less than auto_pause_seconds ago
RecentDriveStart ==
    /\ metrics.last_stroke_start_time_us > 0
    /\ (now - metrics.last_stroke_start_time_us) \div 1000
           < auto_pause_seconds * 1000

\* a paused session with a completed stroke and a recent drive start
PausedWithActivity ==
    /\ s_current_session_id > 0
    /\ metrics.is_paused
    /\ metrics.stroke_count > 0
    /\ RecentDriveStart

\* what an auto-resume leaves behind, paused_ms being the growth of
\* total_paused_time_ms
AutoResumed(paused_ms) ==
    /\ ~metrics'.is_paused
    /\ metrics'.total_paused_time_ms = metrics.total_paused_time_ms + paused_ms
    /\ metrics'.last_resume_time_us = now
    /\ s_stroke_count_at_resume' = metrics.stroke_count
    /\ s_current_session_id' = s_current_session_id
    /\ metrics'.total_distance_meters = metrics.total_distance_meters
    /\ metrics'.stroke_count = metrics.stroke_count

C22_AutoStartNeedsStrokeAndActivity ==
    /\ [][(session_manager_check_activity
            /\ s_current_session_id' # s_current_session_id)
           => (/\ s_current_session_id = 0
               /\ metrics.stroke_count > 0
               /\ RecentDriveStart)]_vars
    /\ [][(session_manager_check_activity
            /\ (metrics.stroke_count = 0 \/ ~RecentDriveStart))
           => s_current_session_id' = s_current_session_id]_vars

\* a session the check started: no HTTP start was ever issued for it
C22_AutoStartedSession ==
    /\ s_current_session_id > 0
    /\ op.id = 0
    /\ s_session_start_time > metrics.last_stroke_start_time_us
    /\ metrics.last_stroke_start_time_us > 0
    /\ s_stroke_count_at_resume > 0
    /\ ~metrics.is_paused

\* C23: while the inertia calibration is Waiting, Spinup or Spindown, or
\* auto_pause_seconds is 0, a check leaves the session id, is_paused,
\* pause_start_time_us, total_paused_time_ms and the stroke count at resume
\* as they are.
C23_CheckDisabledIsNoOp ==
    [][(session_manager_check_activity
        /\ (\/ calibration_state \in {"WAITING", "SPINUP", "SPINDOWN"}
            \/ auto_pause_seconds = 0))
       => (/\ s_current_session_id' = s_current_session_id
           /\ metrics'.is_paused = metrics.is_paused
           /\ metrics'.pause_start_time_us = metrics.pause_start_time_us
           /\ metrics'.total_paused_time_ms = metrics.total_paused_time_ms
           /\ s_stroke_count_at_resume' = s_stroke_count_at_resume)]_vars

\* strokes with a recent drive start and no session while the calibration
\* runs: the check would start a session were it not disabled
C23_ActivityDuringCalibration ==
    /\ calibration_state \in {"WAITING", "SPINUP", "SPINDOWN"}
    /\ auto_pause_seconds > 0
    /\ s_current_session_id = 0
    /\ metrics.stroke_count > 0
    /\ RecentDriveStart

\* ------------------------------------------------------------------------
\* Properties of the sampler
\* ------------------------------------------------------------------------
\* C24: the sample buffer never holds more than 7200 rows; recording with
\* 7200 rows held changes neither the rows nor the session id nor the
\* accumulators nor the last distance; recording without a session changes
\* no row.
C24_SampleBufferStopsWhenFull ==
    /\ [](Len(s_sample_buffer) <= SAMPLE_BUFFER_SIZE)
    /\ [][(RecordSample /\ Len(s_sample_buffer) = SAMPLE_BUFFER_SIZE)
           => (/\ s_sample_buffer' = s_sample_buffer
               /\ s_current_session_id' = s_current_session_id
               /\ s_sample_totals' = s_sample_totals
               /\ s_last_distance' = s_last_distance)]_vars
    /\ [][(RecordSample /\ s_current_session_id = 0)
           => s_sample_buffer' = s_sample_buffer]_vars

\* a running session whose buffer is full, every row counted
C24_FullBufferInSession ==
    /\ s_current_session_id > 0
    /\ Len(s_sample_buffer) = SAMPLE_BUFFER_SIZE
    /\ s_sample_totals.heart_rate_count = SAMPLE_BUFFER_SIZE
    /\ s_sample_totals.stroke_rate_samples = SAMPLE_BUFFER_SIZE

\* ------------------------------------------------------------------------
\* Properties of the broadcast task
\* ------------------------------------------------------------------------
\* C25: in round n of the broadcast task the BLE central is notified iff n
\* is a multiple of 5, BLE is enabled and a central is connected; the
\* WebSocket client is sent a frame iff n is a multiple of 2, WiFi is
\* enabled and the WebSocket is live; the SSE client is sent a frame iff n
\* is a multiple of 2, WiFi is enabled and the SSE stream is live.  None of
\* the three depends on the state of another stream.
C25_StreamsServedOnOwnTicks ==
    [][(\E dm \in DerivedMetrics, ws_ret \in WsSendResults,
           sse_errno \in SseSendErrnos :
            broadcast_task(dm, ws_ret, sse_errno))
       => LET n == broadcast_ticks'
          IN  /\ served'.ble = (/\ n % 5 = 0
                                /\ g_config.ble_enabled
                                /\ clients.ble = "live")
              /\ served'.ws = (/\ n % 2 = 0
                               /\ g_config.wifi_enabled
                               /\ clients.ws = "live")
              /\ served'.sse = (/\ n % 2 = 0
                                /\ g_config.wifi_enabled
                                /\ clients.sse = "live")]_vars

\* the SSE stream is served in a round in which no WebSocket is connected
\* and the BLE central, connected, is not due
C25_SseServedWithoutWebSocket ==
    /\ served.sse
    /\ ~served.ws
    /\ ~served.ble
    /\ clients.ws = "none"
    /\ clients.ble = "live"
    /\ broadcast_ticks > ws_divisor

\* ------------------------------------------------------------------------
\* Properties of the heart-rate ingest
\* ------------------------------------------------------------------------
\* C26: a value outside [30, 220], posted to /hr or notified by the BLE
\* monitor, is rejected: POST /hr answers with an error, and the current
\* heart rate, the time of the last update and the HR trace stay as they
\* are.
C26_OutOfRangeRejected ==
    /\ [][\A hr \in PostedRates :
            (hr_post_handler(hr) /\ op' # op /\ (hr < 30 \/ hr > 220))
              => (/\ op'.ret # "ESP_OK"
                  /\ UNCHANGED <<s_current_hr, s_last_update_time_ms,
                                 s_hr_buffer>>)]_vars
    /\ [][\A data \in HrMeasurements :
            (/\ ble_hr_notify_rx(data)
             /\ (\/ parse_heart_rate_raw(data) < 30
                 \/ parse_heart_rate_raw(data) > 220))
              => UNCHANGED <<s_current_hr, s_last_update_time_ms,
                             s_hr_buffer>>]_vars

\* the session controller is Running
Running == s_current_session_id > 0 /\ ~metrics.is_paused

\* a heart-rate value arrives by one of its three ways in
HrArrives ==
    \/ \E hr \in PostedRates : hr_post_handler(hr)
    \/ \E data \in HrMeasurements : ble_hr_notify_rx(data)
    \/ \E bpm \in HrInputs : hr_receiver_update(bpm)

\* an arriving value is appended to the HR trace only while Running
C27_AppendedOnlyWhileRunning ==
    [][(HrArrives /\ s_hr_buffer' # s_hr_buffer) => Running]_vars

\* while Running, however the session began, an accepted value is appended
C27_RunningSessionRecords ==
    (Running /\ Len(s_hr_buffer) < MaxHrSamples)
      => ENABLED (hr_receiver_update(60)
                  /\ s_hr_buffer' = Append(s_hr_buffer, 60))

\* C27: the HR trace never holds more than 7200 samples; a value is appended
\* to it only while the session is Running, not with no session, while
\* Paused or after stop; and a Running session records accepted values
\* whether it began by the start command or by auto-start.
C27_HrTraceFollowsSession ==
    /\ [](Len(s_hr_buffer) <= MAX_HR_SAMPLES)
    /\ C27_AppendedOnlyWhileRunning
    /\ []C27_RunningSessionRecords

\* ------------------------------------------------------------------------
\* Properties of the metrics reset
\* ------------------------------------------------------------------------
\* what a metrics reset keeps and what it clears
ResetKeepsAndClears ==
    /\ metrics'.moment_of_inertia = metrics.moment_of_inertia
    /\ metrics'.drag_coefficient = metrics.drag_coefficient
    /\ metrics'.calibration_complete = metrics.calibration_complete
    /\ metrics'.stroke_count = 0
    /\ metrics'.total_distance_meters = 0
    /\ metrics'.elapsed_time_ms = 0
    /\ metrics'.total_paused_time_ms = 0
    /\ metrics'.total_work_joules = 0
    /\ metrics'.instantaneous_power_watts = 0
    /\ metrics'.current_phase = "IDLE"

\* C28: POST /api/reset keeps the moment of inertia, the drag coefficient and
\* calibration_complete and clears stroke count, distance, elapsed time,
\* paused time, work, power and session_start_time_us, with the phase Idle;
\* POST /workout/start with no session does the same to the metrics except
\* that it sets session_start_time_us = now and is_paused = FALSE, and it
\* empties the sample buffer and zeroes its accumulators.
C28_ResetKeepsCalibration ==
    /\ [][api_reset_handler
           => (ResetKeepsAndClears /\ metrics'.session_start_time_us = 0)]_vars
    /\ [][(workout_start_handler /\ s_current_session_id = 0)
           => (/\ ResetKeepsAndClears
               /\ s_sample_buffer' = <<>>
               /\ s_sample_totals' = ZeroTotals
               /\ s_last_distance' = 0
               /\ s_current_session_id' > 0
               /\ ~metrics'.is_paused
               /\ metrics'.session_start_time_us = now)]_vars

\* a session just started, after the boot time, on a machine with a
\* configured inertia and a completed drag calibration
C28_StartedOnCalibratedMachine ==
    /\ op.note = "started"
    /\ s_current_session_id > 0
    /\ now > BootTimeUs
    /\ metrics.session_start_time_us = now
    /\ metrics.stroke_count = 0
    /\ s_sample_buffer = <<>>
    /\ metrics.moment_of_inertia # DEFAULT_MOMENT_OF_INERTIA
    /\ metrics.drag_coefficient = measured_k
    /\ metrics.calibration_complete

\* with no session: a stroke rowed, work done, samples left by a session
\* that was stopped, on a calibrated machine
C28_ActivityBeforeStart ==
    /\ s_current_session_id = 0
    /\ metrics.stroke_count > 0
    /\ metrics.total_work_joules > 0
    /\ metrics.instantaneous_power_watts > 0
    /\ metrics.total_distance_meters > 0
    /\ metrics.elapsed_time_ms > 0
    /\ Len(s_sample_buffer) > 0
    /\ s_sample_totals # ZeroTotals
    /\ metrics.calibration_complete

\* ------------------------------------------------------------------------
\* Properties of the start command
\* ------------------------------------------------------------------------
\* a session that was paused at a recorded time
PausedSession == s_current_session_id > 0 /\ metrics.is_paused

\* what a resume by the start command leaves behind, paused_ms being the
\* growth of total_paused_time_ms
StartResumed(paused_ms) ==
    /\ s_current_session_id' = s_current_session_id
    /\ metrics'.stroke_count = metrics.stroke_count
    /\ metrics'.total_distance_meters = metrics.total_distance_meters
    /\ s_sample_buffer' = s_sample_buffer
    /\ s_hr_buffer' = s_hr_buffer
    /\ ~metrics'.is_paused
    /\ metrics'.total_paused_time_ms = metrics.total_paused_time_ms + paused_ms

CompletedDriveRound ==
    /\ "FLYWHEEL" \in sensor_event_group
    /\ metrics.current_phase = "DRIVE"
    /\ \E k \in Kinematics, valid \in BOOLEAN, work_dj \in DriveWorks,
          fast \in BOOLEAN :
           CompletedDrive(k) /\ sensor_processing_task_loop(k, valid, work_dj, fast)

\* C30: stroke_count increases by exactly 1 on a Drive to Recovery
\* transition whose drive lasted at least 500 ms, is unchanged by every
\* other step (shorter drives, other transitions, seat triggers, the idle
\* timeout, pause, resume), and decreases only through a metrics reset.
C30_StrokeCountedPerCompletedDrive ==
    /\ [][CompletedDriveRound
           => metrics'.stroke_count = metrics.stroke_count + 1]_vars
    /\ [][metrics'.stroke_count > metrics.stroke_count
           => CompletedDriveRound]_vars
    /\ [][metrics'.stroke_count < metrics.stroke_count
           => api_reset_handler]_vars

\* a stroke counted at the end of a drive, on a machine that was paused for
\* a time and resumed
C30_StrokeCountedAfterResume ==
    /\ metrics.stroke_count = 1
    /\ metrics.current_phase = "RECOVERY"
    /\ metrics.total_paused_time_ms > 0
    /\ ~metrics.is_paused
    /\ op.name = "resume"

\* C31: in every state the published drag_factor is drag_coefficient * 10^6.
C31_DragFactorTracksCoefficient ==
    metrics.drag_factor = metrics.drag_coefficient * 1000000

\* a round of the sensor task that processes a pulse with an interval in
\* [1 ms, 10 s] to the pulse before
InRangePulseRound ==
    /\ "FLYWHEEL" \in sensor_event_group
    /\ metrics.last_flywheel_time_us # 0
    /\ DeltaTimeInRange(g_last_flywheel_time_us - metrics.last_flywheel_time_us)
    /\ \E k \in Kinematics, work_dj \in StrokeWorks :
           sensor_processing_task_kinematics(k, FALSE, work_dj, TRUE)

\* C32: on every pulse with an in-range interval dt the published angular
\* acceleration is (omega_new - omega_before) / dt, omega_before being the
\* velocity derived at the pulse before; it is 0 where no velocity was
\* derived before (the first two pulses).
C32_AccelerationFromPrecedingPulse ==
    [][InRangePulseRound
       => metrics'.angular_acceleration_rad_s2 =
              IF metrics.angular_velocity_rad_s > 0
              THEN AngularAcceleration(
                       metrics'.angular_velocity_rad_s,
                       metrics.angular_velocity_rad_s,
                       g_last_flywheel_time_us - metrics.last_flywheel_time_us)
              ELSE 0]_vars

\* a round of the broadcast task that pushes to the web clients and whose
\* send to the WebSocket / SSE client returns the given result
WebPush(ws_rets, sse_errnos) ==
    /\ ws_counter + 1 >= ws_divisor
    /\ g_config.wifi_enabled
    /\ \E dm \in DerivedMetrics, ws_ret \in ws_rets, sse_errno \in sse_errnos :
           broadcast_task(dm, ws_ret, sse_errno)

C34_StrokeRateInRange ==
    [][metrics'.stroke_count > metrics.stroke_count
       => (metrics'.stroke_rate_spm >= 100 /\ metrics'.stroke_rate_spm <= 600)]_vars

\* a round of the sensor task more than IDLE_TIMEOUT_MS after the last
\* flywheel pulse
TimedOutRound ==
    /\ (now - g_last_flywheel_time_us) > IDLE_TIMEOUT_MS * 1000
    /\ \E k \in Kinematics, work_dj \in StrokeWorks, fast \in BOOLEAN :
           sensor_processing_task_kinematics(k, FALSE, work_dj, fast)

\* C35: while no flywheel pulse has arrived since boot the machine is
\* inactive and Idle with distance, elapsed time and stroke count 0; and
\* every round of the sensor task that finds the last pulse more than 5 s
\* old leaves the machine inactive and Idle, whatever its phase was.
C35_IdleWithoutPulses ==
    /\ [](g_flywheel_pulse_count = 0
           => /\ ~metrics.is_active
              /\ metrics.current_phase = "IDLE"
              /\ metrics.total_distance_meters = 0
              /\ metrics.elapsed_time_ms = 0
              /\ metrics.stroke_count = 0)
    /\ [][TimedOutRound
           => (~metrics'.is_active /\ metrics'.current_phase = "IDLE")]_vars

\* C36: whenever is_paused holds, pause_start_time_us is the non-zero time
\* at which the pause began, and total_paused_time_ms never exceeds the
\* time since the session started (nor is it positive with no session
\* started).
C36_PauseStartRecorded ==
    /\ metrics.is_paused => metrics.pause_start_time_us > 0
    /\ metrics.total_paused_time_ms
          <= (IF metrics.session_start_time_us > 0
              THEN (now - metrics.session_start_time_us) \div 1000
              ELSE 0)

\* C37: each pause interval is added to total_paused_time_ms exactly once:
\* every step that adds to it ends a pause, and adds the duration of that
\* pause as read by the step that found the session paused.
C37_PauseIntervalAddedOnce ==
    [][metrics'.total_paused_time_ms > metrics.total_paused_time_ms
       => /\ metrics.is_paused
          /\ ~metrics'.is_paused]_vars

\* C38: once a stop has committed a session, session_manager_get_samples of
\* its id returns only rows that session recorded: the rows of its sample
\* buffer, or none; never the blob an earlier session left under the same
\* key.
C38_SamplesOfCommittedSession ==
    [][\A dat_ok \in BOOLEAN :
         (ActiveStop(TRUE, TRUE, dat_ok) /\ MeetsSaveThreshold)
           => LET got == session_manager_get_samples(
                             s_current_session_id', s_sample_buffer',
                             nvs_dat', s_current_session_id,
                             SAMPLE_BUFFER_SIZE)
              IN  got.ret = "ESP_OK" => got.rows = s_sample_buffer]_vars

\* C39: the dead-client reaping of web_server_broadcast_metrics never
\* removes a connected client: an fd that is listed and connected before and
\* after a step is still listed after it, in both client lists.
C39_ConnectedClientNeverReaped ==
    [][\A fd \in Fds :
         (sockets[fd] = "open" /\ sockets'[fd] = "open")
           => /\ InList(g_ws_fds, fd) => InList(g_ws_fds', fd)
              /\ InList(g_sse_clients, fd) => InList(g_sse_clients', fd)]_vars

\* C40: calibration_complete is true only if at least 50 calibration samples
\* are counted, so that a completed calibration never meets the
\* first-sample branch of rowing_physics_calibrate_drag
\* (drag_calibration_samples = 0), also after a metrics reset.
C40_CompleteOnlyWithSamples ==
    metrics.calibration_complete
        => metrics.drag_calibration_samples >= CALIBRATION_SAMPLES

====
